---------------------------- MODULE Spec2Model ----------------------------
(***************************************************************************)
(* Model of the marketing-performance chatbot core.                        *)
(*                                                                         *)
(* QueryEngine (src/src/engine/query_engine.py) interprets a QueryPlan     *)
(* (src/src/engine/query_plan.py) against the normalized table produced by *)
(* MarketingDataLoader (src/src/data/loader.py).                           *)
(*                                                                         *)
(* MarketingDataLoader.load turns a source file into that table; its cell  *)
(* conversions are computed on the characters of the cells.                *)
(*                                                                         *)
(* A table is a sequence of rows; a pandas frame derived from it is a      *)
(* record [kind, idx]: kind "rows" with idx the set of positions of the    *)
(* table rows it holds (boolean indexing keeps the table's row order), or  *)
(* kind "mask" for the all-False frame that `DataFrame & Series` yields.   *)
(***************************************************************************)
EXTENDS Integers, Sequences, FiniteSets, TLC

VARIABLES
    df,       \* QueryEngine.df: the normalized table the engine was built with
    pc,       \* "idle" | "returned" | "raised": position of the current call
    plan,     \* the QueryPlan of the current call (NoPlan when idle)
    slice,    \* frame after _apply_time_range
    subset,   \* frame after _apply_filters (ExecutionResult.subset_df)
    result,   \* ExecutionResult.result_df
    error,    \* the exception that ended the call, NoError otherwise
    earlier,  \* a result_df the caller kept from an earlier call, with its plan
    source,   \* the CSV file given to MarketingDataLoader.load
    loaded,   \* what load() produced: a LoadResult or the exception raised
    planner,  \* the parsed planner output and the QueryPlan build_plan made of it
    memory,   \* ChatMemory: max_user, max_bot, the two buffers, _last_plan
    pushed,   \* every message given to push_user / push_bot so far, in order
    chat,     \* ChatLoop.run: where the loop is and what the last turn did
    auth      \* AuthManager.login: attempts made and the value returned

vars == <<df, pc, plan, slice, subset, result, error, earlier, source, loaded,
          planner, memory, pushed, chat, auth>>

\* The state of the application around the loader and the engine.
appVars == <<planner, memory, pushed, chat, auth>>

\* No plan was built, no ChatMemory, ChatLoop or AuthManager exists.
AppIdle ==
    /\ planner = [status |-> "none"]
    /\ memory = [status |-> "none"]
    /\ pushed = [user |-> <<>>, bot |-> <<>>]
    /\ chat = [status |-> "none"]
    /\ auth = [status |-> "none"]

---------------------------------------------------------------------------
(* Bounds of the model                                                     *)

MaxRows == 3        \* rows in the table
MaxFilters == 2     \* length of plan.filters
MaxTopN == 2        \* largest plan.top_n (the smallest is -1)
MaxHistory == 2     \* largest max_user / max_bot a ChatMemory is built with
MaxPushes == 3      \* pushes made on each buffer of a ChatMemory
MaxTurns == 3       \* non-blank inputs read by one ChatLoop.run

---------------------------------------------------------------------------
(* Encodings                                                               *)

NaN == -1           \* a missing cell (pandas NaN); legal cell values are >= 0
None == -99         \* an unset Optional[int] field of the plan
FalseCell == 0      \* a cell of a boolean frame holding False (False == 0)
DefaultNYears == 3  \* `tr.n_years or 3`

MetricNames == {"revenue", "cost", "profit"}

MkRow(y, q, m, c, n, rev, cost) ==
    [year |-> y, quarter |-> q, month |-> m, country |-> c, campaign_name |-> n,
     revenue |-> rev, cost |-> cost, profit |-> rev - cost]

\* Rows the loader can produce: quarter/month present and in range, revenue
\* and cost present, profit = revenue - cost; year and the string dimensions
\* are not gated and may be missing.
SampleRows ==
    { MkRow(2023, 1, 1, 1, 1, 10, 4),
      MkRow(2023, 2, 4, 2, 2, 10, 6),
      MkRow(2022, 4, 12, 1, NaN, 20, 5),
      MkRow(NaN, 1, 2, 2, 1, 5, 5) }

Tables == UNION { [1..n -> SampleRows] : n \in 0..MaxRows }

---------------------------------------------------------------------------
(* QueryPlan                                                               *)

TR(type, year, quarter, n_years) ==
    [type |-> type, year |-> year, quarter |-> quarter, n_years |-> n_years]

Filter(field, value) == [field |-> field, op |-> "=", value |-> value]

SortBy(field, direction) == [field |-> field, direction |-> direction]

NoSortBy == SortBy("None", "None")

QueryPlan(intent, metrics, groupby, time_range, filters, top_n, sort_by) ==
    [intent |-> intent, metrics |-> metrics, groupby |-> groupby,
     time_range |-> time_range, filters |-> filters,
     top_n |-> top_n, sort_by |-> sort_by]

NoPlan == QueryPlan("None", <<>>, <<>>, TR("None", None, None, None), <<>>, None, NoSortBy)

---------------------------------------------------------------------------
(* Frames                                                                  *)

Frame(kind, idx) == [kind |-> kind, idx |-> idx]

NoFrame == Frame("none", {})

WholeTable(t) == Frame("rows", DOMAIN t)

\* The value of column c in the frame's row at table position i.
Cell(t, f, i, c) == IF f.kind = "mask" THEN FalseCell ELSE t[i][c]

NoError == [type |-> "None", msg |-> ""]

Raise(type, msg) == [error |-> [type |-> type, msg |-> msg], frame |-> NoFrame]

Ok(f) == [error |-> NoError, frame |-> f]

\* df["year"].max(): NaN cells are skipped; NaN when nothing is left.
MaxYear(t) ==
    LET ys == { t[i].year : i \in DOMAIN t } \ {NaN}
    IN  IF ys = {} THEN NaN ELSE CHOOSE y \in ys : \A z \in ys : z <= y

\* Mutant of PreviousQuarter: quarter 1 does not wrap to the previous year.
PreviousQuarterNoWrap(max_year, max_q) == <<max_year, max_q - 1>>

\* The (year, quarter) pair before the latest one: lines 99-102.
PreviousQuarter(max_year, max_q) ==
    IF max_q = 1 THEN <<max_year - 1, 4>> ELSE <<max_year, max_q - 1>>

\* int(NaN) raises ValueError: the table has no row with a year.
SliceLastQuarter(t) ==
    LET max_year == MaxYear(t)
        qs == { t[i].quarter : i \in { j \in DOMAIN t : t[j].year = max_year } }
        max_q == CHOOSE q \in qs : \A z \in qs : z <= q
        yq == PreviousQuarter(max_year, max_q)
    IN  IF max_year = NaN
        THEN { Raise("ValueError", "cannot convert float NaN to integer") }
        ELSE { Ok(Frame("rows", { i \in DOMAIN t : t[i].year = yq[1] /\ t[i].quarter = yq[2] })) }

\* Line 91 evaluates `df[df.year >= start_year] & (df.year <= max_year)`: a
\* frame combined with a boolean Series.  pandas aligns the Series' row labels
\* with the frame's column names; depending on the build the operation raises
\* TypeError (the datetime column supports no `&`) or yields an all-False frame
\* over the rows that passed the lower bound.
SliceLastNYears(t, tr) ==
    LET n == IF tr.n_years = None \/ tr.n_years = 0 THEN DefaultNYears ELSE tr.n_years
        max_year == MaxYear(t)
        start_year == max_year - n + 1
    IN  IF tr.year = None
        THEN { Raise("ValueError", "time_range.year is required for type=last_n_years") }
        ELSE IF max_year = NaN
        THEN { Raise("ValueError", "cannot convert float NaN to integer") }
        ELSE { Raise("TypeError", "unsupported operand type(s) for &"),
               Ok(Frame("mask", { i \in DOMAIN t : t[i].year # NaN /\ t[i].year >= start_year })) }

\* df[df["year"] == year]
SliceYear(t, year) == Frame("rows", { i \in DOMAIN t : t[i].year = year })

\* Mutant of SliceQuarter: the two masks joined with | instead of &.
SliceQuarterEither(t, year, quarter) ==
    Frame("rows", { i \in DOMAIN t : t[i].year = year \/ t[i].quarter = quarter })

\* df[(df["year"] == year) & (df["quarter"] == quarter)]
SliceQuarter(t, year, quarter) ==
    Frame("rows", { i \in DOMAIN t : t[i].year = year /\ t[i].quarter = quarter })

ApplyTimeRange(t, p) ==
    LET tr == p.time_range
    IN  CASE tr.type = "all" -> { Ok(WholeTable(t)) }
          [] tr.type = "year" ->
                IF tr.year = None
                THEN { Raise("ValueError", "time_range.year is required for type=year") }
                ELSE { Ok(SliceYear(t, tr.year)) }
          [] tr.type = "quarter" ->
                IF tr.year = None \/ tr.quarter = None
                THEN { Raise("ValueError",
                             "time_range.year and time_range.quarter are required for type=quarter") }
                ELSE { Ok(SliceQuarter(t, tr.year, tr.quarter)) }
          [] tr.type = "last_quarter" -> SliceLastQuarter(t)
          [] tr.type = "last_n_years" -> SliceLastNYears(t, tr)
          [] OTHER -> { Ok(WholeTable(t)) }

\* Mutant of ApplyFilters: every filter indexes the input frame instead of
\* the narrowed one, so only the last filter takes effect.
ApplyFiltersOnInput(t, f, filters) ==
    IF filters = <<>> THEN f
    ELSE LET h == filters[Len(filters)]
         IN  Frame(f.kind, { i \in f.idx : Cell(t, f, i, h.field) = h.value })

\* out = out[out[f.field] == f.value] for every filter, in list order.
RECURSIVE ApplyFilters(_, _, _)
ApplyFilters(t, f, filters) ==
    IF filters = <<>> THEN f
    ELSE LET h == Head(filters)
             out == IF h.op = "="
                    THEN Frame(f.kind, { i \in f.idx : Cell(t, f, i, h.field) = h.value })
                    ELSE f
         IN  ApplyFilters(t, out, Tail(filters))

---------------------------------------------------------------------------
(* Grouping and summing                                                    *)

Table(group, metrics, rows) == [group |-> group, metrics |-> metrics, rows |-> rows]

NoResult == Table(<<>>, <<>>, <<>>)

Range(s) == { s[i] : i \in DOMAIN s }

\* agg_map = {m: "sum" for m in metrics}: a dict keeps the first occurrence
\* of every key, in insertion order.
RECURSIVE AggMap(_)
AggMap(metrics) ==
    IF metrics = <<>> THEN <<>>
    ELSE LET init == AggMap(SubSeq(metrics, 1, Len(metrics) - 1))
             last == metrics[Len(metrics)]
         IN  IF last \in Range(init) THEN init ELSE Append(init, last)

\* Series.sum() over the rows at positions idx (0 for no rows).
RECURSIVE SumCol(_, _, _, _)
SumCol(t, f, idx, m) ==
    IF idx = {} THEN 0
    ELSE LET i == CHOOSE j \in idx : TRUE
         IN  Cell(t, f, i, m) + SumCol(t, f, idx \ {i}, m)

KeyOf(t, f, i, group) == [j \in 1..Len(group) |-> Cell(t, f, i, group[j])]

\* Order of two cell values in a sorted index: NaN sorts last.
ValLess(x, y) == x # y /\ (y = NaN \/ (x # NaN /\ x < y))

LexLess(a, b) ==
    \E k \in 1..Len(a) : (\A j \in 1..(k - 1) : a[j] = b[j]) /\ ValLess(a[k], b[k])

RECURSIVE SortedKeys(_)
SortedKeys(S) ==
    IF S = {} THEN <<>>
    ELSE LET m == CHOOSE k \in S : \A o \in S : ~LexLess(o, k)
         IN  <<m>> \o SortedKeys(S \ {m})

\* The group keys kept by groupby(..., dropna=...): with dropna=False a key
\* holding NaN is a group of its own.
GroupKeys(t, f, group, dropna) ==
    { k \in { KeyOf(t, f, i, group) : i \in f.idx } :
        dropna => \A j \in DOMAIN k : k[j] # NaN }

\* Mutant of GroupBy: groupby with its default dropna=True.
GroupByDropNa(t, f, group, metrics) ==
    LET keys == SortedKeys(GroupKeys(t, f, group, TRUE))
        cols == AggMap(metrics)
    IN  Table(group, cols,
              [k \in 1..Len(keys) |->
                  [key |-> keys[k],
                   sums |-> [m \in Range(cols) |->
                               SumCol(t, f, { i \in f.idx : KeyOf(t, f, i, group) = keys[k] }, m)]]])

\* df.groupby(group, dropna=False).agg(agg_map).reset_index(): one row per
\* key, keys in sorted order, each metric summed over the key's rows.
GroupBy(t, f, group, metrics) ==
    LET keys == SortedKeys(GroupKeys(t, f, group, FALSE))
        cols == AggMap(metrics)
    IN  Table(group, cols,
              [k \in 1..Len(keys) |->
                  [key |-> keys[k],
                   sums |-> [m \in Range(cols) |->
                               SumCol(t, f, { i \in f.idx : KeyOf(t, f, i, group) = keys[k] }, m)]]])

Returned(res) == [error |-> NoError, result |-> res]

Failed(type, msg) == [error |-> [type |-> type, msg |-> msg], result |-> NoResult]

\* Mutant of RunAggregate: the ungrouped sum taken with min_count=1, which
\* is NaN over no rows.
RunAggregateMinCount(t, f, p) ==
    IF p.metrics = <<>>
    THEN { Failed("ValueError", "aggregate requires at least one metric") }
    ELSE IF p.groupby = <<>>
    THEN LET cols == AggMap(p.metrics)
         IN  { Returned(Table(<<>>, cols,
                   << [key |-> <<>>,
                       sums |-> [m \in Range(cols) |->
                                   IF f.idx = {} THEN NaN ELSE SumCol(t, f, f.idx, m)]] >>)) }
    ELSE { Returned(GroupBy(t, f, p.groupby, p.metrics)) }

RunAggregate(t, f, p) ==
    IF p.metrics = <<>>
    THEN { Failed("ValueError", "aggregate requires at least one metric") }
    ELSE IF p.groupby = <<>>
    THEN LET cols == AggMap(p.metrics)
         IN  { Returned(Table(<<>>, cols,
                   << [key |-> <<>>, sums |-> [m \in Range(cols) |-> SumCol(t, f, f.idx, m)]] >>)) }
    ELSE { Returned(GroupBy(t, f, p.groupby, p.metrics)) }

---------------------------------------------------------------------------
(* Sorting                                                                 *)

Orderings(n) == { q \in [1..n -> 1..n] : \A a, b \in 1..n : q[a] = q[b] => a = b }

\* Does value x go strictly before value y in the requested direction?
\* (na_position="last" in either direction.)
Before(x, y, ascending) ==
    x # y /\ (y = NaN \/ (x # NaN /\ (IF ascending THEN x < y ELSE x > y)))

\* res.sort_values(by=field, ascending=...) with the default kind="quicksort",
\* which is not a stable sort: every arrangement that is ordered by the sort
\* column is a possible outcome, equal values in any relative order.
SortValues(rows, field, ascending) ==
    { [k \in 1..Len(rows) |-> rows[q[k]]] :
        q \in { r \in Orderings(Len(rows)) :
                  \A a, b \in 1..Len(rows) :
                      a < b => ~Before(rows[r[b]].sums[field], rows[r[a]].sums[field], ascending) } }

\* DataFrame.head(n): the first n rows, or all but the last -n rows for n < 0.
HeadRows(rows, n) ==
    LET k == IF n >= 0
             THEN (IF n < Len(rows) THEN n ELSE Len(rows))
             ELSE (IF Len(rows) + n > 0 THEN Len(rows) + n ELSE 0)
    IN  SubSeq(rows, 1, k)

\* Mutant of RunTopN: an unset sort_by defaults to the first metric,
\* descending, as the docstring suggests, instead of failing.
RunTopNDefaultSort(t, f, p) ==
    IF p.groupby = <<>>
    THEN { Failed("ValueError", "top_n requires groupby (e.g., campaign_name)") }
    ELSE IF p.top_n = None
    THEN { Failed("ValueError", "top_n requires top_n and sort_by") }
    ELSE LET metrics == IF p.metrics = <<>> THEN <<"revenue">> ELSE p.metrics
             res == GroupBy(t, f, p.groupby, metrics)
             sort_by == IF p.sort_by = NoSortBy THEN SortBy(res.metrics[1], "desc") ELSE p.sort_by
         IN  IF sort_by.field \notin Range(res.metrics)
             THEN { Failed("KeyError", sort_by.field) }
             ELSE { Returned(Table(res.group, res.metrics, HeadRows(sorted, p.top_n))) :
                      sorted \in SortValues(res.rows, sort_by.field, sort_by.direction = "asc") }

RunTopN(t, f, p) ==
    IF p.groupby = <<>>
    THEN { Failed("ValueError", "top_n requires groupby (e.g., campaign_name)") }
    ELSE IF p.top_n = None \/ p.sort_by = NoSortBy
    THEN { Failed("ValueError", "top_n requires top_n and sort_by") }
    ELSE LET metrics == IF p.metrics = <<>> THEN <<"revenue">> ELSE p.metrics
             res == GroupBy(t, f, p.groupby, metrics)
         IN  IF p.sort_by.field \notin Range(res.metrics)
             THEN { Failed("KeyError", p.sort_by.field) }
             ELSE { Returned(Table(res.group, res.metrics, HeadRows(sorted, p.top_n))) :
                      sorted \in SortValues(res.rows, p.sort_by.field,
                                            p.sort_by.direction = "asc") }

\* Position of column c in the grouping list (0 when absent).
ColumnIndex(group, c) ==
    IF c \in Range(group) THEN CHOOSE j \in DOMAIN group : group[j] = c ELSE 0

\* Mutant of SortByColumns: the frame is left in the order groupby gave it,
\* the declared order of the grouping columns.
SortByDeclaredColumns(rows, group, by) == rows

\* res.sort_values(by) for a list of key columns: a lexicographic, stable
\* sort, NaN last.  The row taken next is the first one no other row precedes.
RECURSIVE SortByColumns(_, _, _)
SortByColumns(rows, group, by) ==
    IF rows = <<>> THEN <<>>
    ELSE LET key(r) == [j \in 1..Len(by) |-> r.key[ColumnIndex(group, by[j])]]
             i == CHOOSE a \in DOMAIN rows :
                     /\ \A b \in DOMAIN rows : ~LexLess(key(rows[b]), key(rows[a]))
                     /\ \A b \in 1..(a - 1) : LexLess(key(rows[a]), key(rows[b]))
                                               \/ LexLess(key(rows[b]), key(rows[a]))
             rest == [k \in 1..(Len(rows) - 1) |-> IF k < i THEN rows[k] ELSE rows[k + 1]]
         IN  <<rows[i]>> \o SortByColumns(rest, group, by)

\* Mutant of RunTrend: the groupby default is applied only when the metrics
\* are defaulted too.
RunTrendJointDefaults(t, f, p) ==
    LET both == p.groupby = <<>> /\ p.metrics = <<>>
        group == IF both THEN <<"year", "month">> ELSE p.groupby
        metrics == IF p.metrics = <<>> THEN <<"revenue", "cost">> ELSE p.metrics
        res == GroupBy(t, f, group, metrics)
    IN  IF "year" \in Range(group) /\ "month" \in Range(group)
        THEN { Returned(Table(res.group, res.metrics,
                              SortByColumns(res.rows, group, <<"year", "month">>))) }
        ELSE { Returned(Table(res.group, res.metrics,
                              SortByColumns(res.rows, group, group))) }

RunTrend(t, f, p) ==
    LET group == IF p.groupby = <<>> THEN <<"year", "month">> ELSE p.groupby
        metrics == IF p.metrics = <<>> THEN <<"revenue", "cost">> ELSE p.metrics
        res == GroupBy(t, f, group, metrics)
    IN  IF "year" \in Range(group) /\ "month" \in Range(group)
        THEN { Returned(Table(res.group, res.metrics,
                              SortByColumns(res.rows, group, <<"year", "month">>))) }
        ELSE { Returned(Table(res.group, res.metrics,
                              SortByColumns(res.rows, group, group))) }

---------------------------------------------------------------------------
(* QueryEngine.execute_with_subset                                         *)

\* Mutant of Dispatch: an intent that is not top_n or trend is run as an
\* aggregate.
DispatchDefaultAggregate(t, f, p) ==
    CASE p.intent = "top_n" -> RunTopN(t, f, p)
      [] p.intent = "trend" -> RunTrend(t, f, p)
      [] OTHER -> RunAggregate(t, f, p)

Dispatch(t, f, p) ==
    CASE p.intent = "aggregate" -> RunAggregate(t, f, p)
      [] p.intent = "top_n" -> RunTopN(t, f, p)
      [] p.intent = "trend" -> RunTrend(t, f, p)
      [] OTHER -> { Failed("ValueError", "Unsupported intent") }

\* Mutant of Outcomes: the frame returned as subset_df is the time-range
\* slice, taken before the filters.
OutcomesSliceAsSubset(t, p) ==
    UNION { IF tro.error # NoError
            THEN { [error |-> tro.error, slice |-> NoFrame, subset |-> NoFrame,
                    result |-> NoResult] }
            ELSE LET sub == ApplyFilters(t, tro.frame, p.filters)
                 IN  { [error |-> d.error, slice |-> tro.frame, subset |-> tro.frame,
                        result |-> d.result] : d \in Dispatch(t, sub, p) }
          : tro \in ApplyTimeRange(t, p) }

\* Every way the call can end: the frames it computed, and its result or the
\* exception it raised.
Outcomes(t, p) ==
    UNION { IF tro.error # NoError
            THEN { [error |-> tro.error, slice |-> NoFrame, subset |-> NoFrame,
                    result |-> NoResult] }
            ELSE LET sub == ApplyFilters(t, tro.frame, p.filters)
                 IN  { [error |-> d.error, slice |-> tro.frame, subset |-> sub,
                        result |-> d.result] : d \in Dispatch(t, sub, p) }
          : tro \in ApplyTimeRange(t, p) }

---------------------------------------------------------------------------
(* MarketingDataLoader: the source file and its cells                      *)
(*                                                                         *)
(* A CSV cell is text: a sequence of one-character strings, <<>> for a     *)
(* blank cell.  The loader's conversions are computed on the characters.   *)

MaxSourceRows == 2  \* data rows in the source file

Digits == <<"0", "1", "2", "3", "4", "5", "6", "7", "8", "9">>

IsDigit(c) == \E d \in DOMAIN Digits : Digits[d] = c

DigitValue(c) == (CHOOSE d \in DOMAIN Digits : Digits[d] = c) - 1

\* The number written by a run of decimal digits.
RECURSIVE Number(_)
Number(s) ==
    IF s = <<>> THEN 0
    ELSE 10 * Number(SubSeq(s, 1, Len(s) - 1)) + DigitValue(s[Len(s)])

\* The decimal digits of a natural number.
RECURSIVE IntText(_)
IntText(n) ==
    IF n < 10 THEN <<Digits[n + 1]>> ELSE IntText(n \div 10) \o <<Digits[(n % 10) + 1]>>

\* pd.to_numeric(cell, errors="coerce"): the value of a cell holding an
\* unsigned integer, NaN for a blank cell or any other text.
ToNumeric(s) ==
    IF s # <<>> /\ \A k \in DOMAIN s : IsDigit(s[k]) THEN Number(s) ELSE NaN

\* The position after the white space that starts at position k (regex \s*).
RECURSIVE SkipSpace(_, _)
SkipSpace(s, k) == IF k <= Len(s) /\ s[k] = " " THEN SkipSpace(s, k + 1) ELSE k

\* Mutant of ExtractQuarter: the pattern takes any digit after the Q.
ExtractQuarterAnyDigit(s) ==
    LET at(k) == SkipSpace(s, k + 1)
        hits == { k \in DOMAIN s : s[k] = "Q" /\ at(k) <= Len(s) /\ IsDigit(s[at(k)]) }
    IN  IF hits = {} THEN NaN
        ELSE LET k == CHOOSE h \in hits : \A o \in hits : h <= o
             IN  DigitValue(s[at(k)])

\* pd.to_numeric(col.astype(str).str.extract(r"Q\s*([1-4])")): the digit of
\* the leftmost match, NaN when the text has no match.
ExtractQuarter(s) ==
    LET at(k) == SkipSpace(s, k + 1)
        hits == { k \in DOMAIN s :
                    s[k] = "Q" /\ at(k) <= Len(s) /\ s[at(k)] \in {"1", "2", "3", "4"} }
    IN  IF hits = {} THEN NaN
        ELSE LET k == CHOOSE h \in hits : \A o \in hits : h <= o
             IN  DigitValue(s[at(k)])

\* pd.to_numeric(col.astype(str).str.extract(r"M\s*(\d{1,2})")): the one or
\* two digits of the leftmost match, NaN when the text has no match.
ExtractMonth(s) ==
    LET at(k) == SkipSpace(s, k + 1)
        hits == { k \in DOMAIN s : s[k] = "M" /\ at(k) <= Len(s) /\ IsDigit(s[at(k)]) }
    IN  IF hits = {} THEN NaN
        ELSE LET k == CHOOSE h \in hits : \A o \in hits : h <= o
                 j == at(k)
             IN  IF j + 1 <= Len(s) /\ IsDigit(s[j + 1])
                 THEN Number(SubSeq(s, j, j + 1))
                 ELSE DigitValue(s[j])

\* A parsed date; NaT is the date of a cell that could not be parsed.
Date(y, m, d) == [y |-> y, m |-> m, d |-> d]

NaT == Date(NaN, NaN, NaN)

DaysIn(y, m) ==
    IF m = 2 THEN (IF (y % 4 = 0 /\ y % 100 # 0) \/ y % 400 = 0 THEN 29 ELSE 28)
    ELSE IF m \in {4, 6, 9, 11} THEN 30 ELSE 31

\* pd.to_datetime(cell, errors="coerce") on YYYY-MM-DD text.
ParseDate(s) ==
    IF /\ Len(s) = 10
       /\ s[5] = "-" /\ s[8] = "-"
       /\ \A k \in {1, 2, 3, 4, 6, 7, 9, 10} : IsDigit(s[k])
    THEN LET y == Number(SubSeq(s, 1, 4))
             m == Number(SubSeq(s, 6, 7))
             d == Number(SubSeq(s, 9, 10))
         IN  IF m \in 1..12 /\ d \in 1..DaysIn(y, m) THEN Date(y, m, d) ELSE NaT
    ELSE NaT

\* Series.dt.quarter
QuarterOf(date) == ((date.m - 1) \div 3) + 1

\* The digits of n, zero-padded on the left to the given width.
RECURSIVE Pad(_, _)
Pad(s, width) == IF Len(s) >= width THEN s ELSE Pad(<<"0">> \o s, width)

\* str(v.date()): YYYY-MM-DD
FormatDate(date) ==
    Pad(IntText(date.y), 4) \o <<"-">> \o Pad(IntText(date.m), 2)
        \o <<"-">> \o Pad(IntText(date.d), 2)

DateLess(a, b) ==
    \/ a.y < b.y
    \/ a.y = b.y /\ a.m < b.m
    \/ a.y = b.y /\ a.m = b.m /\ a.d < b.d

---------------------------------------------------------------------------
(* The schema (the columns the model carries)                              *)

RawColumns ==
    {"Year", "Quarter", "Month", "Date", "Country", "Media Category", "Revenue", "Cost"}

RenameMap ==
    [Year |-> "year", Quarter |-> "quarter", Month |-> "month", Date |-> "date",
     Country |-> "country", Revenue |-> "revenue", Cost |-> "cost"]
    @@ ("Media Category" :> "media_category")

NumericColumns == <<"year", "quarter", "month", "revenue", "cost">>

RowIdHashColumns ==
    <<"year", "quarter", "month", "date", "country", "media_category", "revenue", "cost">>

\* The characters of a column name.
NameText(c) ==
    CASE c = "year" -> <<"y", "e", "a", "r">>
      [] c = "quarter" -> <<"q", "u", "a", "r", "t", "e", "r">>
      [] c = "month" -> <<"m", "o", "n", "t", "h">>
      [] c = "date" -> <<"d", "a", "t", "e">>
      [] c = "country" -> <<"c", "o", "u", "n", "t", "r", "y">>
      [] c = "media_category" ->
            <<"m", "e", "d", "i", "a", "_", "c", "a", "t", "e", "g", "o", "r", "y">>
      [] c = "revenue" -> <<"r", "e", "v", "e", "n", "u", "e">>
      [] c = "cost" -> <<"c", "o", "s", "t">>

---------------------------------------------------------------------------
(* The source files given to load()                                        *)

Television == <<"T", "V">>

RawRow(year, quarter, month, date, country, revenue, cost) ==
    [Year |-> year, Quarter |-> quarter, Month |-> month, Date |-> date,
     Country |-> country, Revenue |-> revenue, Cost |-> cost]
    @@ ("Media Category" :> Television)

\* The row with other text in its two string dimensions.
WithDimensions(row, country, media_category) ==
    [row EXCEPT !["Country"] = country, !["Media Category"] = media_category]

Y2023 == <<"2", "0", "2", "3">>
Feb14 == <<"2", "0", "2", "3", "-", "0", "2", "-", "1", "4">>
Nov03 == <<"2", "0", "2", "2", "-", "1", "1", "-", "0", "3">>
NotADate == <<"n", "/", "a">>
Italy == <<"I", "T">>
France == <<"F", "R">>
Ten == <<"1", "0">>

\* Text a dimension cell may hold: the characters between two values of
\* the row key.
KeyText ==
    <<"|", "m", "e", "d", "i", "a", "_", "c", "a", "t", "e", "g", "o", "r", "y", "=">>

\* A well-formed row and rows departing from it in one or two cells.
SourceRows ==
    { RawRow(Y2023, <<"1">>, <<"2">>, Feb14, Italy, Ten, <<"4">>),
      RawRow(Y2023, <<"3">>, <<"2">>, Feb14, Italy, Ten, <<"4">>),
      RawRow(Y2023, <<"5">>, <<"2">>, Feb14, Italy, Ten, <<"4">>),
      RawRow(Y2023, <<"Q", "2">>, <<"2">>, Feb14, Italy, Ten, <<"4">>),
      RawRow(Y2023, <<"Q", "5">>, <<"2">>, Feb14, Italy, Ten, <<"4">>),
      RawRow(Y2023, <<>>, <<"2">>, Feb14, Italy, Ten, <<"4">>),
      RawRow(Y2023, <<"F", "Y", " ", "Q", " ", "4">>, <<"2">>, Feb14, Italy, Ten, <<"4">>),
      RawRow(Y2023, <<"1">>, <<"1", "3">>, Feb14, Italy, Ten, <<"4">>),
      RawRow(Y2023, <<"1">>, <<"M", "0", "8">>, Feb14, Italy, Ten, <<"4">>),
      RawRow(Y2023, <<"1">>, <<"M", "1", "3">>, Feb14, Italy, Ten, <<"4">>),
      RawRow(Y2023, <<"1">>, <<>>, Feb14, Italy, Ten, <<"4">>),
      RawRow(Y2023, <<"1">>, <<"M", "a", "r">>, Feb14, Italy, Ten, <<"4">>),
      RawRow(<<"2", "0", "2", "2">>, <<>>, <<>>, Nov03, France, <<"2", "5">>, <<"5">>),
      RawRow(Y2023, <<"1">>, <<"2">>, NotADate, Italy, Ten, <<"4">>),
      RawRow(<<>>, <<"1">>, <<"2">>, Feb14, Italy, Ten, <<"4">>),
      RawRow(Y2023, <<"1">>, <<"2">>, Feb14, Italy, <<>>, <<"4">>),
      RawRow(Y2023, <<"1">>, <<"2">>, Feb14, Italy, Ten, <<"n", "a">>),
      RawRow(Y2023, <<"5">>, <<"2">>, <<>>, Italy, Ten, <<"4">>),
      RawRow(Y2023, <<"1">>, <<"1", "3">>, Feb14, Italy, <<>>, <<"4">>),
      WithDimensions(RawRow(Y2023, <<"1">>, <<"2">>, Feb14, Italy, Ten, <<"4">>),
                     <<"b">> \o KeyText \o <<"c">>, <<"d">>),
      WithDimensions(RawRow(Y2023, <<"1">>, <<"2">>, Feb14, Italy, Ten, <<"4">>),
                     <<"b">>, <<"c">> \o KeyText \o <<"d">>) }

\* The header of the file: the schema's raw columns, some of them possibly
\* missing, and possibly a column the schema does not know.
Headers ==
    { RawColumns, RawColumns \ {"Revenue"}, RawColumns \ {"Date", "Quarter"},
      RawColumns \cup {"Notes"}, RawColumns \cup {"year"},
      (RawColumns \ {"Cost"}) \cup {"Notes"} }

Source(columns, rows) == [columns |-> columns, rows |-> rows]

NoSource == Source({}, <<>>)

Sources ==
    { Source(h, rows) :
        h \in Headers, rows \in UNION { [1..n -> SourceRows] : n \in 1..MaxSourceRows } }

---------------------------------------------------------------------------
(* MarketingDataLoader.load                                                *)

\* The outcome of load(): status "ok" with the LoadResult's df, min_date and
\* max_date, or status "failed" with the exception, the gate that raised it
\* and the pipeline steps completed before it.
LoadSteps ==
    <<"validate_columns", "normalize", "coerce_types", "add_derived_metrics", "add_row_id">>

NotLoaded ==
    [status |-> "none", error |-> NoError, gate |-> "none", steps |-> <<>>,
     df |-> <<>>, dtype |-> <<>>, min_date |-> NaT, max_date |-> NaT]

LoadFailed(type, msg, gate, steps) ==
    [status |-> "failed", error |-> [type |-> type, msg |-> msg], gate |-> gate,
     steps |-> steps, df |-> <<>>, dtype |-> <<>>, min_date |-> NaT, max_date |-> NaT]

\* _validate_columns: the schema's raw columns the header lacks.
MissingColumns(src) == RawColumns \ src.columns

\* _normalize: df.rename(columns=rename_map).  `twice` holds the names borne
\* by two columns of the renamed frame: a renamed raw column beside a source
\* column that already had that name.
Normalize(src) ==
    [twice |-> { c \in src.columns \ RawColumns :
                   \E r \in RawColumns \cap src.columns : RenameMap[r] = c },
     rows |-> [i \in DOMAIN src.rows |->
                 [c \in { RenameMap[r] : r \in RawColumns } |->
                     src.rows[i][CHOOSE r \in RawColumns : RenameMap[r] = c]]]]

\* Lines 108-112 and 131: the numeric value of the cell, else the digit of
\* its Q pattern, else the quarter of the row's date.
CoerceQuarter(cell, date) ==
    LET n == ToNumeric(cell)
        q == IF n # NaN THEN n ELSE ExtractQuarter(cell)
    IN  IF q # NaN THEN q ELSE QuarterOf(date)

\* Lines 121-125 and 132: the same for the month and its M pattern.
CoerceMonth(cell, date) ==
    LET n == ToNumeric(cell)
        m == IF n # NaN THEN n ELSE ExtractMonth(cell)
    IN  IF m # NaN THEN m ELSE date.m

\* Mutant of BadQuarterMonth: only the quarter is range-checked.
BadQuarterOnly(q, m) == q = NaN \/ ~(q \in 1..4)

\* Lines 137-138: bad_q | bad_m for one row.
BadQuarterMonth(q, m) ==
    \/ q = NaN \/ ~(q \in 1..4)
    \/ m = NaN \/ ~(m \in 1..12)

\* The dtype pd.to_numeric gives a column: int64 when every cell is an
\* integer, float64 as soon as one cell is coerced to NaN.
ColumnDtype(cells) ==
    IF \A i \in DOMAIN cells : ToNumeric(cells[i]) # NaN THEN "int64" ELSE "float64"

Stop(type, msg, gate) ==
    [error |-> [type |-> type, msg |-> msg], gate |-> gate, rows |-> <<>>, dtype |-> <<>>]

\* _coerce_types: the gates in the order of lines 93-159.  pd.to_numeric
\* raises TypeError on a column name borne by two columns (line 151).
CoerceTypes(fr) ==
    LET n == Len(fr.rows)
        date == [i \in 1..n |-> ParseDate(fr.rows[i].date)]
        quarter == [i \in 1..n |-> CoerceQuarter(fr.rows[i].quarter, date[i])]
        month == [i \in 1..n |-> CoerceMonth(fr.rows[i].month, date[i])]
        col(c) == [i \in 1..n |-> fr.rows[i][c]]
    IN  IF \E i \in 1..n : date[i] = NaT
        THEN Stop("ValueError", "Some rows have invalid Date values", "date")
        ELSE IF \E i \in 1..n : BadQuarterMonth(quarter[i], month[i])
        THEN Stop("ValueError", "Some rows have invalid Quarter/Month values", "quarter_month")
        ELSE IF Range(NumericColumns) \cap fr.twice # {}
        THEN Stop("TypeError", "arg must be a list, tuple, 1-d array, or Series",
                  "numeric_coercion")
        ELSE IF \E i \in 1..n : ToNumeric(fr.rows[i].revenue) = NaN
                                 \/ ToNumeric(fr.rows[i].cost) = NaN
        THEN Stop("ValueError", "Some rows have invalid Revenue/Cost values", "revenue_cost")
        ELSE [error |-> NoError, gate |-> "none",
              rows |-> [i \in 1..n |->
                          [year |-> ToNumeric(fr.rows[i].year),
                           quarter |-> quarter[i],
                           month |-> month[i],
                           date |-> date[i],
                           country |-> fr.rows[i].country,
                           media_category |-> fr.rows[i].media_category,
                           revenue |-> ToNumeric(fr.rows[i].revenue),
                           cost |-> ToNumeric(fr.rows[i].cost)]],
              dtype |-> [c \in Range(NumericColumns) |-> ColumnDtype(col(c))]]

\* Mutant of AddDerivedMetrics: the operands of the subtraction are swapped.
AddDerivedMetricsSwapped(rows) ==
    [i \in DOMAIN rows |->
        [c \in DOMAIN rows[i] \cup {"profit"} |->
            IF c = "profit" THEN rows[i].cost - rows[i].revenue ELSE rows[i][c]]]

\* _add_derived_metrics: df["profit"] = df["revenue"] - df["cost"]
AddDerivedMetrics(rows) ==
    [i \in DOMAIN rows |->
        [c \in DOMAIN rows[i] \cup {"profit"} |->
            IF c = "profit" THEN rows[i].revenue - rows[i].cost ELSE rows[i][c]]]

\* f"{v}" for a cell of a numeric column: numpy prints an int64 without and
\* a float64 with a fractional part, and a missing value as nan.
FormatNumber(v, dtype) ==
    IF v = NaN THEN <<"n", "a", "n">>
    ELSE IF dtype = "int64" THEN IntText(v)
    ELSE IntText(v) \o <<".", "0">>

\* The text of column c of the row, as build_row_key formats it.
ValueText(row, dtype, c) ==
    IF c = "date" THEN FormatDate(row.date)
    ELSE IF c \in {"country", "media_category"}
    THEN (IF row[c] = <<>> THEN <<"n", "a", "n">> ELSE row[c])
    ELSE FormatNumber(row[c], dtype[c])

\* "|".join(parts)
RECURSIVE Join(_)
Join(parts) ==
    IF parts = <<>> THEN <<>>
    ELSE IF Len(parts) = 1 THEN parts[1]
    ELSE parts[1] \o <<"|">> \o Join(Tail(parts))

\* build_row_key: "col=value" for every hash column, joined by "|".
BuildRowKey(row, dtype) ==
    Join([j \in DOMAIN RowIdHashColumns |->
            NameText(RowIdHashColumns[j]) \o <<"=">>
                \o ValueText(row, dtype, RowIdHashColumns[j])])

\* hash_key: the first 16 hex digits of the key's SHA-256 digest, named here
\* by the key it is the digest of.
HashKey(key) == [sha256_16 |-> key]

\* _add_row_id: df["row_id"] = df.apply(hash_key(build_row_key(row)), axis=1)
AddRowId(rows, dtype) ==
    [i \in DOMAIN rows |->
        [c \in DOMAIN rows[i] \cup {"row_id"} |->
            IF c = "row_id" THEN HashKey(BuildRowKey(rows[i], dtype)) ELSE rows[i][c]]]

\* load(): lines 47-62.
LoadOutcome(src) ==
    IF MissingColumns(src) # {}
    THEN LoadFailed("ValueError", "CSV missing expected columns", "columns", <<>>)
    ELSE LET c == CoerceTypes(Normalize(src))
         IN  IF c.error # NoError
             THEN LoadFailed(c.error.type, c.error.msg, c.gate, SubSeq(LoadSteps, 1, 2))
             ELSE LET rows == AddRowId(AddDerivedMetrics(c.rows), c.dtype)
                      lo == CHOOSE i \in DOMAIN rows :
                               \A j \in DOMAIN rows : ~DateLess(rows[j].date, rows[i].date)
                      hi == CHOOSE i \in DOMAIN rows :
                               \A j \in DOMAIN rows : ~DateLess(rows[i].date, rows[j].date)
                  IN  [status |-> "ok", error |-> NoError, gate |-> "none",
                       steps |-> LoadSteps, df |-> rows, dtype |-> c.dtype,
                       min_date |-> rows[lo].date, max_date |-> rows[hi].date]

---------------------------------------------------------------------------
(* The plans submitted to the engine                                       *)

PlanYears == {None, 2022, 2023}
PlanQuarters == {None, 1, 4}
PlanNYears == {None, 0, 1, 2}

TimeRanges ==
    { TR("all", None, None, None), TR("last_quarter", None, None, None) }
    \cup { TR("year", y, None, None) : y \in PlanYears }
    \cup { TR("quarter", y, q, None) : y \in PlanYears, q \in PlanQuarters }
    \cup { TR("last_n_years", y, None, n) : y \in {None, 2023}, n \in PlanNYears }

FilterSpace == { Filter("country", 1), Filter("campaign_name", 1), Filter("campaign_name", 2) }

FilterLists == UNION { [1..n -> FilterSpace] : n \in 0..MaxFilters }

MetricLists == { <<>>, <<"revenue">>, <<"profit">>, <<"cost", "revenue", "cost">> }

GroupLists == { <<>>, <<"campaign_name">>, <<"year">>, <<"year", "month">>,
                <<"month", "year">>, <<"country", "campaign_name">> }

TopNs == {None} \cup (-1..MaxTopN)

SortBys ==
    { NoSortBy, SortBy("revenue", "desc"), SortBy("revenue", "asc"),
      SortBy("profit", "desc"), SortBy("cost", "asc") }

AllTime == TR("all", None, None, None)

\* Every time range, under an executable and an unknown plan.
TimeRangePlans ==
    { QueryPlan(i, <<"revenue">>, <<>>, tr, <<>>, None, NoSortBy) :
        i \in {"aggregate", "unknown"}, tr \in TimeRanges }

\* Every filter list, under three kinds of time range.
FilterPlans ==
    { QueryPlan("aggregate", <<"revenue">>, <<>>, tr, fl, None, NoSortBy) :
        tr \in { AllTime, TR("year", 2023, None, None), TR("last_n_years", 2023, None, 2) },
        fl \in FilterLists }

\* Every metrics/groupby combination of the aggregate and trend intents.
GroupingPlans ==
    { QueryPlan(i, m, g, tr, fl, None, NoSortBy) :
        i \in {"aggregate", "trend"}, m \in MetricLists, g \in GroupLists,
        tr \in { AllTime, TR("last_quarter", None, None, None) },
        fl \in { <<>>, <<Filter("country", 1)>> } }

\* Every metrics/groupby/top_n/sort_by combination of the top_n intent.
TopNPlans ==
    { QueryPlan("top_n", m, g, AllTime, <<>>, n, sb) :
        m \in MetricLists,
        g \in { <<>>, <<"campaign_name">>, <<"country", "campaign_name">> },
        n \in TopNs, sb \in SortBys }

\* Plans of the unknown intent, over every other field of the plan.
UnknownPlans ==
    { QueryPlan("unknown", m, g, tr, fl, None, NoSortBy) :
        m \in { <<>>, <<"cost", "revenue", "cost">> },
        g \in { <<>>, <<"year", "month">>, <<"country", "campaign_name">> },
        tr \in { AllTime, TR("last_quarter", None, None, None),
                 TR("year", 2023, None, None), TR("last_n_years", 2023, None, 2) },
        fl \in { <<>>, <<Filter("country", 1)>> } }

Plans == TimeRangePlans \cup FilterPlans \cup GroupingPlans \cup TopNPlans \cup UnknownPlans

---------------------------------------------------------------------------
(* The state machine                                                       *)

\* The caller holds no earlier result.
NoEarlier == [plan |-> NoPlan, result |-> NoResult, between |-> FALSE]

Init ==
    /\ df \in Tables
    /\ pc = "idle"
    /\ plan = NoPlan
    /\ slice = NoFrame
    /\ subset = NoFrame
    /\ result = NoResult
    /\ error = NoError
    /\ earlier = NoEarlier
    /\ source = NoSource
    /\ loaded = NotLoaded
    /\ AppIdle

\* The table rows at the positions idx, in table order.
RECURSIVE Kept(_, _)
Kept(t, idx) ==
    IF idx = {} THEN <<>>
    ELSE LET i == CHOOSE a \in idx : \A b \in idx : a <= b
         IN  <<t[i]>> \o Kept(t, idx \ {i})

\* Mutant of ExecuteWithSubset: the filtered frame is stored back into
\* self.df.
ExecuteWithSubsetInPlace(p) ==
    /\ pc = "idle"
    /\ \E o \in Outcomes(df, p) :
          /\ pc' = IF o.error = NoError THEN "returned" ELSE "raised"
          /\ slice' = o.slice
          /\ subset' = o.subset
          /\ result' = o.result
          /\ error' = o.error
          /\ df' = IF o.subset.kind = "rows" THEN Kept(df, o.subset.idx) ELSE df
    /\ plan' = p
    /\ earlier' = IF earlier = NoEarlier \/ p = earlier.plan
                  THEN earlier ELSE [earlier EXCEPT !.between = TRUE]
    /\ UNCHANGED <<source, loaded>>
    /\ UNCHANGED appVars

\* Mutant of ExecuteWithSubset: the time-range slice is stored back into
\* self.df.
ExecuteWithSubsetKeepsSlice(p) ==
    /\ pc = "idle"
    /\ \E o \in Outcomes(df, p) :
          /\ pc' = IF o.error = NoError THEN "returned" ELSE "raised"
          /\ slice' = o.slice
          /\ subset' = o.subset
          /\ result' = o.result
          /\ error' = o.error
          /\ df' = IF o.slice.kind = "rows" THEN Kept(df, o.slice.idx) ELSE df
    /\ plan' = p
    /\ earlier' = IF earlier = NoEarlier \/ p = earlier.plan
                  THEN earlier ELSE [earlier EXCEPT !.between = TRUE]
    /\ UNCHANGED <<source, loaded>>
    /\ UNCHANGED appVars

\* One call of execute_with_subset(plan), from entry to return or raise.
ExecuteWithSubset(p) ==
    /\ pc = "idle"
    /\ \E o \in Outcomes(df, p) :
          /\ pc' = IF o.error = NoError THEN "returned" ELSE "raised"
          /\ slice' = o.slice
          /\ subset' = o.subset
          /\ result' = o.result
          /\ error' = o.error
    /\ plan' = p
    /\ earlier' = IF earlier = NoEarlier \/ p = earlier.plan
                  THEN earlier ELSE [earlier EXCEPT !.between = TRUE]
    /\ UNCHANGED <<df, source, loaded>>
    /\ UNCHANGED appVars

\* The caller has taken the ExecutionResult (or caught the exception); the
\* call's locals are gone and the engine waits for the next plan.
Finish ==
    /\ pc \in {"returned", "raised"}
    /\ pc' = "idle"
    /\ plan' = NoPlan
    /\ slice' = NoFrame
    /\ subset' = NoFrame
    /\ result' = NoResult
    /\ error' = NoError
    /\ UNCHANGED <<df, earlier, source, loaded>>
    /\ UNCHANGED appVars

Next ==
    \/ \E p \in Plans : ExecuteWithSubset(p)
    \/ Finish

Spec == Init /\ [][Next]_vars

---------------------------------------------------------------------------
(* Repeated execution: the caller keeps one result and runs the plan again *)

\* The caller keeps the result_df of a returned aggregate call.
Keep ==
    /\ pc = "returned"
    /\ plan.intent = "aggregate"
    /\ earlier = NoEarlier
    /\ earlier' = [plan |-> plan, result |-> result, between |-> FALSE]
    /\ pc' = "idle"
    /\ plan' = NoPlan
    /\ slice' = NoFrame
    /\ subset' = NoFrame
    /\ result' = NoResult
    /\ error' = NoError
    /\ UNCHANGED <<df, source, loaded>>
    /\ UNCHANGED appVars

\* Aggregate plans to repeat, and plans of every intent to run in between.
RepeatPlans ==
    { QueryPlan("aggregate", m, g, tr, <<>>, None, NoSortBy) :
        m \in { <<"revenue">>, <<"cost", "revenue", "cost">> },
        g \in { <<>>, <<"campaign_name">> },
        tr \in { AllTime, TR("last_quarter", None, None, None),
                 TR("last_n_years", 2023, None, 2) } }
    \cup { QueryPlan("aggregate", <<"profit">>, <<"year">>, AllTime,
                     <<Filter("country", 1)>>, None, NoSortBy),
           QueryPlan("aggregate", <<"revenue">>, <<>>, TR("year", 2023, None, None),
                     <<Filter("campaign_name", 1)>>, None, NoSortBy),
           QueryPlan("trend", <<>>, <<>>, AllTime, <<>>, None, NoSortBy),
           QueryPlan("top_n", <<"revenue">>, <<"campaign_name">>, AllTime, <<>>, 1,
                     SortBy("revenue", "desc")),
           QueryPlan("unknown", <<"revenue">>, <<>>, AllTime, <<>>, None, NoSortBy) }

NextRepeat ==
    \/ \E p \in RepeatPlans : ExecuteWithSubset(p)
    \/ Finish
    \/ Keep

SpecRepeat == Init /\ [][NextRepeat]_vars

---------------------------------------------------------------------------
(* Loading: one call of MarketingDataLoader.load on a source file          *)

InitLoader ==
    /\ source \in Sources
    /\ loaded = NotLoaded
    /\ df = <<>>
    /\ pc = "idle"
    /\ plan = NoPlan
    /\ slice = NoFrame
    /\ subset = NoFrame
    /\ result = NoResult
    /\ error = NoError
    /\ earlier = NoEarlier
    /\ AppIdle

\* load(csv_path), from read_csv to the returned LoadResult or the raise.
Load ==
    /\ loaded = NotLoaded
    /\ source # NoSource
    /\ loaded' = LoadOutcome(source)
    /\ UNCHANGED <<source, df, pc, plan, slice, subset, result, error, earlier>>
    /\ UNCHANGED appVars

NextLoader == Load

SpecLoader == InitLoader /\ [][NextLoader]_vars

---------------------------------------------------------------------------
(* Properties of the time-range slice and the filters                      *)

Called == pc # "idle"

YearsPresent == { df[i].year : i \in DOMAIN df } \ {NaN}

LatestYear == CHOOSE y \in YearsPresent : \A z \in YearsPresent : z <= y

LatestQuarter ==
    LET qs == { df[i].quarter : i \in { j \in DOMAIN df : df[j].year = LatestYear } }
    IN  CHOOSE q \in qs : \A z \in qs : z <= q

\* C1: for a last_n_years plan, with or without time_range.year, the slice is
\* the set of table rows whose year lies in [maxYear-n+1, maxYear], with
\* n = n_years or 3 when unset; the time-range step does not fail and the
\* slice is a set of rows, not a boolean frame.
C1_LastNYearsSlice ==
    (Called /\ plan.time_range.type = "last_n_years" /\ YearsPresent # {}) =>
        LET n == IF plan.time_range.n_years = None THEN 3 ELSE plan.time_range.n_years
        IN  slice = Frame("rows", { i \in DOMAIN df :
                                      /\ df[i].year # NaN
                                      /\ df[i].year >= LatestYear - n + 1
                                      /\ df[i].year <= LatestYear })

\* The pair the last_quarter slice must hold, and the slice itself.
LastQuarterSliceIsOnePair ==
    LET y == IF LatestQuarter = 1 THEN LatestYear - 1 ELSE LatestYear
        q == IF LatestQuarter = 1 THEN 4 ELSE LatestQuarter - 1
    IN  /\ slice.kind = "rows"
        /\ \A i \in DOMAIN df : i \in slice.idx <=> (df[i].year = y /\ df[i].quarter = q)

\* C2 as stated: for every non-empty table and last_quarter plan the slice is
\* exactly the rows of the pair before the latest (year, quarter).
C2_LastQuarterAnyNonEmptyTable ==
    (Called /\ plan.time_range.type = "last_quarter" /\ df # <<>>) =>
        (YearsPresent # {} /\ LastQuarterSliceIsOnePair)

\* C2 (amended): for every table in which at least one row has a year, and a
\* last_quarter plan, the slice is exactly the rows of (Y-1, 4) when Q = 1 and
\* (Y, Q-1) otherwise, Y the maximum year present and Q the maximum quarter
\* among the rows of year Y.
C2_LastQuarterSlice ==
    (Called /\ plan.time_range.type = "last_quarter" /\ YearsPresent # {}) =>
        LastQuarterSliceIsOnePair

\* A last_quarter call that wrapped to quarter 4 of the previous year and
\* left other rows of the table out.
C2_Witness ==
    /\ pc = "returned" /\ plan.time_range.type = "last_quarter"
    /\ LatestQuarter = 1
    /\ slice.idx # {} /\ slice.idx # DOMAIN df

\* C3: type=year slices to year == time_range.year and fails without a year;
\* type=quarter slices to year and quarter both equal and fails when either
\* is unset; type=all keeps the whole table.
C3_ExplicitTimeRanges ==
    LET tr == plan.time_range
    IN  /\ (Called /\ tr.type = "year") =>
              IF tr.year = None
              THEN pc = "raised" /\ slice = NoFrame /\ result = NoResult
              ELSE /\ slice.kind = "rows"
                   /\ \A i \in DOMAIN df : i \in slice.idx <=> df[i].year = tr.year
        /\ (Called /\ tr.type = "quarter") =>
              IF tr.year = None \/ tr.quarter = None
              THEN pc = "raised" /\ slice = NoFrame /\ result = NoResult
              ELSE /\ slice.kind = "rows"
                   /\ \A i \in DOMAIN df :
                        i \in slice.idx <=> (df[i].year = tr.year /\ df[i].quarter = tr.quarter)
        /\ (Called /\ tr.type = "all") =>
              slice.kind = "rows" /\ slice.idx = DOMAIN df

\* A quarter call that kept a row and dropped another row of the same year.
C3_Witness ==
    /\ pc = "returned" /\ plan.time_range.type = "quarter"
    /\ slice.idx # {}
    /\ \E i \in DOMAIN df : i \notin slice.idx /\ df[i].year = plan.time_range.year

\* The filter lists that hold the same filters as fl, in every order.
Reorderings(fl) ==
    { [k \in DOMAIN fl |-> fl[q[k]]] : q \in Orderings(Len(fl)) }

\* C4: the subset is exactly the rows of the slice that satisfy every filter;
\* it lies within the slice, and listing the filters in another order gives
\* the same subset.
C4_FiltersAreConjunction ==
    (Called /\ slice # NoFrame) =>
        /\ subset.kind = slice.kind
        /\ subset.idx \subseteq slice.idx
        /\ \A i \in slice.idx :
              i \in subset.idx <=>
                 \A k \in DOMAIN plan.filters :
                    Cell(df, slice, i, plan.filters[k].field) = plan.filters[k].value
        /\ \A fl \in Reorderings(plan.filters) : ApplyFilters(df, slice, fl) = subset

\* Two different filters, each of which alone keeps a row the other rejects.
C4_Witness ==
    /\ pc = "returned" /\ Len(plan.filters) = 2 /\ slice.kind = "rows"
    /\ \E i, j \in slice.idx :
          /\ df[i][plan.filters[1].field] = plan.filters[1].value
          /\ df[i][plan.filters[2].field] # plan.filters[2].value
          /\ df[j][plan.filters[2].field] = plan.filters[2].value
          /\ df[j][plan.filters[1].field] # plan.filters[1].value
    /\ subset.idx # {}

---------------------------------------------------------------------------
(* Properties of the three execution strategies                            *)

\* The sum of column m over the frame's rows, taken position by position.
RECURSIVE TotalUpTo(_, _, _)
TotalUpTo(k, f, m) ==
    IF k = 0 THEN 0
    ELSE TotalUpTo(k - 1, f, m) + (IF k \in f.idx THEN Cell(df, f, k, m) ELSE 0)

Total(f, m) == TotalUpTo(Len(df), f, m)

\* The rows of the frame whose grouping key is key.
GroupOf(f, group, key) ==
    Frame(f.kind, { i \in f.idx : \A j \in DOMAIN group : Cell(df, f, i, group[j]) = key[j] })

KeysIn(f, group) == { [j \in DOMAIN group |-> Cell(df, f, i, group[j])] : i \in f.idx }

RECURSIVE SumOfGroupSums(_, _)
SumOfGroupSums(rows, m) ==
    IF rows = <<>> THEN 0 ELSE Head(rows).sums[m] + SumOfGroupSums(Tail(rows), m)

Reached(intent) == Called /\ slice # NoFrame /\ plan.intent = intent

\* C5: an aggregate plan without groupby and with a metric returns one row
\* holding, for each requested metric, its sum over the subset (0 when the
\* subset is empty); an aggregate plan without metrics fails.
C5_AggregateTotals ==
    /\ (Called /\ plan.intent = "aggregate" /\ plan.metrics = <<>>) =>
          (pc = "raised" /\ result = NoResult)
    /\ (Reached("aggregate") /\ plan.groupby = <<>> /\ plan.metrics # <<>>) =>
          /\ pc = "returned"
          /\ Len(result.rows) = 1
          /\ DOMAIN result.rows[1].sums = Range(plan.metrics)
          /\ \A m \in Range(plan.metrics) : result.rows[1].sums[m] = Total(subset, m)
          /\ subset.idx = {} => \A m \in Range(plan.metrics) : result.rows[1].sums[m] = 0

\* An aggregate over an empty subset of a non-empty table: one row, revenue 0.
C5_Witness ==
    /\ pc = "returned" /\ plan.intent = "aggregate" /\ plan.groupby = <<>>
    /\ df # <<>> /\ subset.kind = "rows" /\ subset.idx = {}
    /\ Len(result.rows) = 1 /\ result.rows[1].sums["revenue"] = 0

\* C6: an aggregate plan with groupby returns one row per distinct key
\* combination in the subset, a NaN key being a group of its own; each row
\* holds the per-group sums, which add up to the sums over the subset.
C6_GroupedAggregate ==
    (Reached("aggregate") /\ plan.groupby # <<>> /\ plan.metrics # <<>>) =>
        /\ pc = "returned"
        /\ Len(result.rows) = Cardinality(KeysIn(subset, plan.groupby))
        /\ { result.rows[k].key : k \in DOMAIN result.rows } = KeysIn(subset, plan.groupby)
        /\ \A k \in DOMAIN result.rows : \A m \in Range(plan.metrics) :
              result.rows[k].sums[m] = Total(GroupOf(subset, plan.groupby, result.rows[k].key), m)
        /\ \A m \in Range(plan.metrics) : SumOfGroupSums(result.rows, m) = Total(subset, m)

\* A grouped aggregate with a NaN-keyed group and a group of several rows.
C6_Witness ==
    /\ pc = "returned" /\ plan.intent = "aggregate" /\ plan.groupby = <<"campaign_name">>
    /\ subset.kind = "rows"
    /\ Len(result.rows) > 1
    /\ \E k \in DOMAIN result.rows : result.rows[k].key = <<NaN>>
    /\ \E k \in DOMAIN result.rows :
          Cardinality(GroupOf(subset, plan.groupby, result.rows[k].key).idx) > 1

Ranked == GroupBy(df, subset, plan.groupby,
                  IF plan.metrics = <<>> THEN <<"revenue">> ELSE plan.metrics).rows

InOrder(rows, field, direction) ==
    \A a, b \in DOMAIN rows :
        a < b => IF direction = "asc"
                 THEN rows[a].sums[field] <= rows[b].sums[field]
                 ELSE rows[a].sums[field] >= rows[b].sums[field]

\* C8: for any top_n plan that executes, with any integer top_n, the rows
\* are monotonic in sort_by.field in the requested direction, there are at
\* most top_n of them, and they are the first top_n rows of the grouped sums
\* fully sorted.
C8_TopNContract ==
    (pc = "returned" /\ plan.intent = "top_n") =>
        /\ InOrder(result.rows, plan.sort_by.field, plan.sort_by.direction)
        /\ Len(result.rows) <= plan.top_n
        /\ \E q \in Orderings(Len(Ranked)) :
              LET sorted == [k \in DOMAIN Ranked |-> Ranked[q[k]]]
              IN  /\ InOrder(sorted, plan.sort_by.field, plan.sort_by.direction)
                  /\ Len(result.rows) <= Len(sorted)
                  /\ result.rows = SubSeq(sorted, 1, Len(result.rows))
                  /\ (Len(result.rows) = plan.top_n \/ Len(result.rows) = Len(sorted))

\* C9: in a top_n result, groups with equal sort values keep the order they
\* had in the grouped table, and a tie at the cut-off keeps the groups that
\* come first in the grouped table.
C9_StableTies ==
    (pc = "returned" /\ plan.intent = "top_n") =>
        LET field == plan.sort_by.field
            pos(r) == CHOOSE k \in DOMAIN Ranked : Ranked[k].key = r.key
        IN  /\ \A a, b \in DOMAIN result.rows :
                  (a < b /\ result.rows[a].sums[field] = result.rows[b].sums[field]) =>
                      pos(result.rows[a]) < pos(result.rows[b])
            /\ \A a \in DOMAIN result.rows : \A k \in DOMAIN Ranked :
                  (Ranked[k].sums[field] = result.rows[a].sums[field]
                     /\ k < pos(result.rows[a])) =>
                      \E b \in DOMAIN result.rows : result.rows[b].key = Ranked[k].key

\* C10: a trend plan runs with groupby [year, month] when its groupby is
\* empty and with metrics [revenue, cost] when its metrics are empty, each
\* default on its own; aggregate and top_n results keep the plan's groupby.
C10_TrendDefaults ==
    /\ Reached("trend") =>
          /\ pc = "returned"
          /\ result.group = (IF plan.groupby = <<>> THEN <<"year", "month">> ELSE plan.groupby)
          /\ Range(result.metrics) =
                Range(IF plan.metrics = <<>> THEN <<"revenue", "cost">> ELSE plan.metrics)
          /\ plan.metrics = <<>> => result.metrics = <<"revenue", "cost">>
          /\ { result.rows[k].key : k \in DOMAIN result.rows } = KeysIn(subset, result.group)
          /\ \A k \in DOMAIN result.rows :
                /\ DOMAIN result.rows[k].sums = Range(result.metrics)
                /\ \A m \in Range(result.metrics) :
                      result.rows[k].sums[m] =
                          Total(GroupOf(subset, result.group, result.rows[k].key), m)
    /\ (pc = "returned" /\ plan.intent \in {"aggregate", "top_n"}) =>
          result.group = plan.groupby

\* A trend call with its own metrics and no groupby: grouped by year and
\* month, several rows, the plan's metrics kept.
C10_Witness ==
    /\ pc = "returned" /\ plan.intent = "trend"
    /\ plan.groupby = <<>> /\ plan.metrics = <<"profit">>
    /\ result.group = <<"year", "month">> /\ result.metrics = <<"profit">>
    /\ Len(result.rows) > 1

---------------------------------------------------------------------------
(* Properties of the trend order, the unknown intent and the subset        *)

\* The key columns the claim orders a trend result by.
TrendOrderColumns ==
    IF {"year", "month"} \subseteq Range(result.group)
    THEN <<"year", "month">> ELSE result.group

\* C11: the rows of a trend result are non-decreasing in (year, month) when
\* the grouping in effect holds both columns, and ascending in the grouping
\* columns in their declared order otherwise (a missing value sorts last).
C11_TrendOrdering ==
    (pc = "returned" /\ plan.intent = "trend") =>
        LET by == TrendOrderColumns
            key(r) == [j \in 1..Len(by) |-> r.key[ColumnIndex(result.group, by[j])]]
        IN  \A a, b \in DOMAIN result.rows :
               a < b => ~LexLess(key(result.rows[b]), key(result.rows[a]))

\* A trend grouped by <<month, year>> whose (year, month) order differs from
\* the order of the declared grouping columns.
C11_Witness ==
    /\ pc = "returned" /\ plan.intent = "trend"
    /\ plan.groupby = <<"month", "year">>
    /\ \E a, b \in DOMAIN result.rows :
          a < b /\ LexLess(result.rows[b].key, result.rows[a].key)

\* C12: a plan of intent unknown that reaches execute_with_subset fails and
\* returns no ExecutionResult, whatever its other fields are.
C12_UnknownIntentFails ==
    (Called /\ plan.intent = "unknown") =>
        (pc = "raised" /\ error # NoError /\ result = NoResult)

C12_Witness ==
    /\ pc = "raised" /\ plan.intent = "unknown"
    /\ error = [type |-> "ValueError", msg |-> "Unsupported intent"]
    /\ plan.metrics # <<>> /\ plan.groupby # <<>> /\ plan.filters # <<>>
    /\ plan.time_range.type = "year"
    /\ subset.idx # {}

\* The plan with its intent, metrics, groupby, top_n and sort_by replaced.
Variants(p) ==
    { QueryPlan("aggregate", <<"cost">>, <<"year">>, p.time_range, p.filters, None, NoSortBy),
      QueryPlan("trend", <<>>, <<>>, p.time_range, p.filters, None, NoSortBy),
      QueryPlan("top_n", <<"profit">>, <<"campaign_name">>, p.time_range, p.filters, 1,
                SortBy("profit", "desc")) }

\* C13: the subset_df of a successful call is the frame left by the
\* time-range slice and all the filters, whatever was aggregated, defaulted,
\* sorted or cut afterwards; plans that differ only in intent, metrics,
\* groupby, top_n or sort_by return the same subset.
C13_SubsetBeforeAggregation ==
    pc = "returned" =>
        /\ subset.kind = slice.kind
        /\ subset.idx = { i \in slice.idx :
                            \A k \in DOMAIN plan.filters :
                               Cell(df, slice, i, plan.filters[k].field)
                                  = plan.filters[k].value }
        /\ \A q \in Variants(plan) :
              \A o \in Outcomes(df, q) : o.error = NoError => o.subset = subset

\* A filtered trend with defaulted metrics and grouping: the subset has lost
\* rows to the filter and has more rows than the result has groups.
C13_Witness ==
    /\ pc = "returned" /\ plan.intent = "trend"
    /\ plan.metrics = <<>> /\ plan.filters # <<>>
    /\ subset.idx # {} /\ subset.idx # slice.idx
    /\ Len(result.rows) < Cardinality(subset.idx)

\* C14: no call of execute_with_subset or execute, returning or raising,
\* changes the table the engine holds.
C14_TableUnchanged == [][df' = df]_vars

\* A call has returned a subset smaller than the table, which is still whole.
C14_Witness ==
    /\ pc = "returned" /\ subset.kind = "rows"
    /\ Len(df) >= 2 /\ subset.idx # {} /\ subset.idx # DOMAIN df

\* C15: an aggregate plan executed again on the same engine, other plans
\* having been executed in between, returns the rows it returned before.
C15_RepeatedAggregate ==
    (pc = "returned" /\ earlier # NoEarlier /\ plan = earlier.plan) =>
        result = earlier.result

C15_Witness ==
    /\ pc = "returned" /\ plan = earlier.plan /\ earlier.between
    /\ plan.groupby # <<>> /\ Len(result.rows) > 1

---------------------------------------------------------------------------
(* Properties of MarketingDataLoader.load                                  *)

LoadedOk == loaded.status = "ok"

LoadFailedAt(gate) == loaded.status = "failed" /\ loaded.gate = gate

\* The columns of a normalized table.
NormalizedColumns ==
    {"year", "quarter", "month", "date", "country", "media_category", "revenue", "cost",
     "profit", "row_id"}

\* The faults of the source, gate by gate.
HasMissingColumn == \E c \in RawColumns : c \notin source.columns

HasBadDate == \E i \in DOMAIN source.rows : ParseDate(source.rows[i].Date) = NaT

HasBadQuarterMonth ==
    \E i \in DOMAIN source.rows :
        LET date == ParseDate(source.rows[i].Date)
        IN  \/ ~(CoerceQuarter(source.rows[i].Quarter, date) \in 1..4)
            \/ ~(CoerceMonth(source.rows[i].Month, date) \in 1..12)

HasMissingRevenueCost ==
    \E i \in DOMAIN source.rows :
        ToNumeric(source.rows[i].Revenue) = NaN \/ ToNumeric(source.rows[i].Cost) = NaN

\* The source without the columns the schema does not know.
WithoutExtraColumns == Source(source.columns \cap RawColumns, source.rows)

\* C16: load() returns a fully normalized table or fails with no table; a
\* faulty source fails at the earliest violated gate (columns, date,
\* quarter/month, revenue/cost) before profit or row_id are produced; extra
\* source columns never cause a failure.
C16_FailFastLoad ==
    loaded # NotLoaded =>
        /\ LoadedOk =>
              /\ loaded.steps = LoadSteps
              /\ Len(loaded.df) = Len(source.rows)
              /\ \A i \in DOMAIN loaded.df : DOMAIN loaded.df[i] = NormalizedColumns
        /\ ~LoadedOk =>
              /\ loaded.status = "failed"
              /\ loaded.df = <<>>
              /\ "add_derived_metrics" \notin Range(loaded.steps)
              /\ "add_row_id" \notin Range(loaded.steps)
        /\ HasMissingColumn => LoadFailedAt("columns")
        /\ (~HasMissingColumn /\ HasBadDate) => LoadFailedAt("date")
        /\ (~HasMissingColumn /\ ~HasBadDate /\ HasBadQuarterMonth) =>
              LoadFailedAt("quarter_month")
        /\ (~HasMissingColumn /\ ~HasBadDate /\ ~HasBadQuarterMonth
               /\ HasMissingRevenueCost) => LoadFailedAt("revenue_cost")
        /\ loaded.status = LoadOutcome(WithoutExtraColumns).status

\* C17: every row of a loaded table has a quarter in 1..4 and a month in
\* 1..12, neither of them missing.
C17_QuarterMonthInRange ==
    LoadedOk =>
        \A i \in DOMAIN loaded.df :
            /\ loaded.df[i].quarter # NaN /\ loaded.df[i].quarter \in 1..4
            /\ loaded.df[i].month # NaN /\ loaded.df[i].month \in 1..12

\* A loaded table with a row whose quarter cell was blank and a row whose
\* month cell was text.
C17_Witness ==
    /\ LoadedOk
    /\ \E i \in DOMAIN source.rows : source.rows[i].Quarter = <<>>
    /\ \E j \in DOMAIN source.rows :
          source.rows[j].Month # <<>> /\ ToNumeric(source.rows[j].Month) = NaN

\* The quarter and month the claim gives a row: the numeric cell, else the
\* number of a legal pattern (Q<1-4>, M<1-12>), else those of the date.
ClaimedQuarter(i) ==
    LET cell == source.rows[i].Quarter
    IN  IF ToNumeric(cell) # NaN THEN ToNumeric(cell)
        ELSE IF ExtractQuarter(cell) \in 1..4 THEN ExtractQuarter(cell)
        ELSE QuarterOf(ParseDate(source.rows[i].Date))

ClaimedMonth(i) ==
    LET cell == source.rows[i].Month
    IN  IF ToNumeric(cell) # NaN THEN ToNumeric(cell)
        ELSE IF ExtractMonth(cell) \in 1..12 THEN ExtractMonth(cell)
        ELSE ParseDate(source.rows[i].Date).m

MonthOfAnyPattern(i) ==
    LET cell == source.rows[i].Month
    IN  IF ToNumeric(cell) # NaN THEN ToNumeric(cell)
        ELSE IF ExtractMonth(cell) # NaN THEN ExtractMonth(cell)
        ELSE ParseDate(source.rows[i].Date).m

C19_ProfitDerived ==
    LoadedOk =>
        \A i \in DOMAIN loaded.df :
            /\ loaded.df[i].revenue # NaN /\ loaded.df[i].cost # NaN
            /\ loaded.df[i].revenue = ToNumeric(source.rows[i].Revenue)
            /\ loaded.df[i].cost = ToNumeric(source.rows[i].Cost)
            /\ loaded.df[i].profit = loaded.df[i].revenue - loaded.df[i].cost

C19_Witness ==
    /\ LoadedOk
    /\ \E i, j \in DOMAIN loaded.df :
          /\ loaded.df[i].revenue # loaded.df[j].revenue
          /\ loaded.df[i].profit > loaded.df[j].profit
          /\ loaded.df[j].profit > 0

\* C20: the row_id of a row depends on that row's hash columns only: every
\* reordering of the source rows gives each row the id it had, and a row
\* loaded without the other rows of the file gets the same id.
C20_RowIdFromRowAlone ==
    LoadedOk =>
        /\ \A perm \in Orderings(Len(source.rows)) :
              LET o == LoadOutcome(Source(source.columns,
                                          [k \in DOMAIN source.rows |-> source.rows[perm[k]]]))
              IN  /\ o.status = "ok"
                  /\ \A k \in DOMAIN o.df : o.df[k].row_id = loaded.df[perm[k]].row_id
        /\ \A i \in DOMAIN source.rows :
              LET alone == LoadOutcome(Source(source.columns, <<source.rows[i]>>))
              IN  alone.status = "ok" /\ alone.df[1].row_id = loaded.df[i].row_id


\* The values of the hash columns of a loaded row.
HashTuple(row) == [j \in DOMAIN RowIdHashColumns |-> row[RowIdHashColumns[j]]]

\* C21: two rows whose tuples of hash-column values differ have different
\* pre-hash keys, whatever text the dimension columns hold, and profit is not
\* a hash column.
C21_KeyIsInjective ==
    /\ "profit" \notin Range(RowIdHashColumns)
    /\ LoadedOk =>
          \A i, j \in DOMAIN loaded.df :
              HashTuple(loaded.df[i]) # HashTuple(loaded.df[j]) =>
                 loaded.df[i].row_id.sha256_16 # loaded.df[j].row_id.sha256_16


---------------------------------------------------------------------------
(* Building a plan: the planner's JSON validated into a QueryPlan          *)

Intent == {"aggregate", "top_n", "trend", "unknown"}

Metric == {"revenue", "cost", "profit"}

FilterField ==
    {"year", "quarter", "month", "week", "country", "media_category", "media_name",
     "communication", "campaign_category", "product", "campaign_name"}

GroupByField ==
    {"year", "quarter", "month", "week", "country", "media_category", "media_name",
     "product", "campaign_name"}

\* The dimensions of the schema registry.
Dimensions ==
    {"year", "quarter", "month", "week", "country", "media_category", "media_name",
     "communication", "campaign_category", "product", "campaign_name"}

TimeRangeTypes == {"all", "year", "quarter", "last_quarter", "last_n_years"}

\* Filter: field is a FilterField and op is "=".
FilterValidates(f) == f.field \in FilterField /\ f.op = "="

\* SortBy: field is a Metric and direction is asc or desc.
SortByValidates(sb) == sb.field \in Metric /\ sb.direction \in {"asc", "desc"}

\* QueryPlan.model_validate(data) raises no ValidationError.
ModelValidate(data) ==
    /\ data.intent \in Intent
    /\ \A i \in DOMAIN data.metrics : data.metrics[i] \in Metric
    /\ \A i \in DOMAIN data.groupby : data.groupby[i] \in GroupByField
    /\ data.time_range.type \in TimeRangeTypes
    /\ \A i \in DOMAIN data.filters : FilterValidates(data.filters[i])
    /\ data.sort_by = NoSortBy \/ SortByValidates(data.sort_by)

\* The plan build_plan returns when the planner's output does not validate.
FallbackPlan == QueryPlan("unknown", <<>>, <<>>, TR("all", None, None, None), <<>>, None, NoSortBy)

\* build_plan from the parsed planner output on: model_validate, and the
\* unknown plan in its place when it raises.
BuildPlanFrom(data) ==
    IF ModelValidate(data)
    THEN [status |-> "built", data |-> data, plan |-> data, validate_error |-> FALSE]
    ELSE [status |-> "built", data |-> data, plan |-> FallbackPlan, validate_error |-> TRUE]

\* Names the planner may write where a field name or a metric is expected.
PlannerNames == Dimensions \cup {"date", "revenue", "row_id"}

\* Parsed planner outputs: every field holds legal and illegal values.
PlannerData ==
    { QueryPlan(i, m, g, TR("all", None, None, None), fl, None, sb) :
        i \in Intent \cup {"compare"},
        m \in { <<>>, <<"profit">>, <<"revenue", "roi">> },
        g \in { <<>> } \cup { <<n>> : n \in PlannerNames },
        fl \in { <<>> } \cup { <<Filter(n, 1)>> : n \in PlannerNames },
        sb \in { NoSortBy, SortBy("cost", "asc"), SortBy("country", "desc") } }

InitPlan ==
    /\ planner \in { [status |-> "parsed", data |-> d] : d \in PlannerData }
    /\ memory = [status |-> "none"]
    /\ pushed = [user |-> <<>>, bot |-> <<>>]
    /\ chat = [status |-> "none"]
    /\ auth = [status |-> "none"]
    /\ df = <<>>
    /\ pc = "idle"
    /\ plan = NoPlan
    /\ slice = NoFrame
    /\ subset = NoFrame
    /\ result = NoResult
    /\ error = NoError
    /\ earlier = NoEarlier
    /\ source = NoSource
    /\ loaded = NotLoaded

\* The rest of build_plan once the planner's text is parsed.
BuildPlan ==
    /\ planner.status = "parsed"
    /\ planner' = BuildPlanFrom(planner.data)
    /\ UNCHANGED <<df, pc, plan, slice, subset, result, error, earlier, source, loaded,
                   memory, pushed, chat, auth>>

NextPlan == BuildPlan

SpecPlan == InitPlan /\ [][NextPlan]_vars

\* What the plan contract calls a legal planner output.
LegalPlanData(data) ==
    /\ data.intent \in {"aggregate", "top_n", "trend", "unknown"}
    /\ \A i \in DOMAIN data.metrics : data.metrics[i] \in {"revenue", "cost", "profit"}
    /\ \A i \in DOMAIN data.groupby : data.groupby[i] \in Dimensions
    /\ \A i \in DOMAIN data.filters : data.filters[i].field \in Dimensions
    /\ data.sort_by = NoSortBy \/ data.sort_by.field \in {"revenue", "cost", "profit"}

\* C22: constructing a QueryPlan succeeds exactly when every groupby entry
\* and every filter field is a schema dimension, the intent is one of the
\* four literals, every metric is revenue, cost or profit, and sort_by.field
\* is a metric.
C22_PlanBoundary ==
    planner.status = "built" =>
        (planner.validate_error <=> ~LegalPlanData(planner.data))


\* C23: a failure of the engine carries a kind that names its cause: an
\* unknown intent fails with UnsupportedIntentError, and an absent required
\* field (top_n without top_n or sort_by, a quarter range without year or
\* quarter) fails with MissingParameterError.
C23_TypedFailures ==
    pc = "raised" =>
        /\ (plan.intent = "unknown" /\ slice # NoFrame) =>
               error.type = "UnsupportedIntentError"
        /\ (plan.intent = "top_n" /\ slice # NoFrame /\ plan.groupby # <<>>
              /\ (plan.top_n = None \/ plan.sort_by = NoSortBy)) =>
               error.type = "MissingParameterError"
        /\ (plan.time_range.type = "quarter"
              /\ (plan.time_range.year = None \/ plan.time_range.quarter = None)) =>
               error.type = "MissingParameterError"


---------------------------------------------------------------------------
(* ChatMemory                                                              *)

\* lst[-k:] for k >= 0: the last k items, and the whole list when k = 0
\* (-0 is 0) or k >= len(lst).
LastSlice(lst, k) ==
    IF k = 0 \/ k >= Len(lst) THEN lst ELSE SubSeq(lst, Len(lst) - k + 1, Len(lst))

\* ChatMemory(max_user, max_bot) as constructed: empty buffers, no plan.
ChatMemory(max_user, max_bot) ==
    [status |-> "live", max_user |-> max_user, max_bot |-> max_bot,
     user_messages |-> <<>>, bot_messages |-> <<>>, last_plan |-> NoPlan]

PushUser(mem, text) ==
    LET appended == Append(mem.user_messages, text)
    IN  [mem EXCEPT !.user_messages =
            IF Len(appended) > mem.max_user
            THEN LastSlice(appended, mem.max_user) ELSE appended]

PushBot(mem, text) ==
    LET appended == Append(mem.bot_messages, text)
    IN  [mem EXCEPT !.bot_messages =
            IF Len(appended) > mem.max_bot
            THEN LastSlice(appended, mem.max_bot) ELSE appended]

SetLastPlan(mem, p) == [mem EXCEPT !.last_plan = p]

\* history_string(max_turns): the i-th kept user message beside the i-th
\* kept assistant message, for as many as both slices hold.
HistoryString(mem, max_turns) ==
    LET u == LastSlice(mem.user_messages, max_turns)
        b == LastSlice(mem.bot_messages, max_turns)
        n == IF Len(u) <= Len(b) THEN Len(u) ELSE Len(b)
    IN  [i \in 1..n |-> [User |-> u[i], Assistant |-> b[i]]]

\* last_plan_json(): "null" without a stored plan, its JSON dump otherwise.
NullJson == [null |-> TRUE, dump |-> NoPlan]

LastPlanJson(mem) ==
    IF mem.last_plan = NoPlan THEN NullJson ELSE [null |-> FALSE, dump |-> mem.last_plan]

\* The history sizes Settings hands to main().
HistorySizes == 0..MaxHistory

InitMemory ==
    /\ memory \in { ChatMemory(mu, mb) : mu \in HistorySizes, mb \in HistorySizes }
    /\ pushed = [user |-> <<>>, bot |-> <<>>]
    /\ planner = [status |-> "none"]
    /\ chat = [status |-> "none"]
    /\ auth = [status |-> "none"]
    /\ df = <<>>
    /\ pc = "idle"
    /\ plan = NoPlan
    /\ slice = NoFrame
    /\ subset = NoFrame
    /\ result = NoResult
    /\ error = NoError
    /\ earlier = NoEarlier
    /\ source = NoSource
    /\ loaded = NotLoaded

\* One call of push_user; the message is named by its place in the pushes.
PushUserCall ==
    /\ Len(pushed.user) < MaxPushes
    /\ LET text == Len(pushed.user) + 1
       IN  /\ memory' = PushUser(memory, text)
           /\ pushed' = [pushed EXCEPT !.user = Append(@, text)]
    /\ UNCHANGED <<df, pc, plan, slice, subset, result, error, earlier, source, loaded,
                   planner, chat, auth>>

\* One call of push_bot.
PushBotCall ==
    /\ Len(pushed.bot) < MaxPushes
    /\ LET text == Len(pushed.bot) + 1
       IN  /\ memory' = PushBot(memory, text)
           /\ pushed' = [pushed EXCEPT !.bot = Append(@, text)]
    /\ UNCHANGED <<df, pc, plan, slice, subset, result, error, earlier, source, loaded,
                   planner, chat, auth>>

NextMemory == PushUserCall \/ PushBotCall

SpecMemory == InitMemory /\ [][NextMemory]_vars

\* The last k items of a list, none when k = 0.
MostRecent(lst, k) ==
    IF k >= Len(lst) THEN lst ELSE SubSeq(lst, Len(lst) - k + 1, Len(lst))

\* C25: after any pushes each buffer is no longer than its bound and holds
\* the most recently pushed messages in push order, for every bound from 0.
C25_BuffersBounded ==
    /\ Len(memory.user_messages) <= memory.max_user
    /\ Len(memory.bot_messages) <= memory.max_bot
    /\ memory.user_messages = MostRecent(pushed.user, memory.max_user)
    /\ memory.bot_messages = MostRecent(pushed.bot, memory.max_bot)


---------------------------------------------------------------------------
(* ChatLoop.run: one action for every way through one pass of the loop     *)

HistoryTurns == 5   \* history_string(max_turns=5)

\* A line typed by the user: a word, maybe padded with blanks, maybe in
\* upper case.
Text(word, padded, upper) == [word |-> word, padded |-> padded, upper |-> upper]

NoInput == Text("None", FALSE, FALSE)

Strip(text) == [text EXCEPT !.padded = FALSE]

Lower(text) == [text EXCEPT !.upper = FALSE]

ExitCommands == {"exit", "quit", "stop", "terminate"}

IsExitCommand(text) == Lower(Strip(text)).word \in ExitCommands

\* `not user_text` after the strip.
IsBlank(text) == Strip(text).word = ""

UserInputs ==
    { Text(w, FALSE, FALSE) :
        w \in ExitCommands \cup {"", "exit now", "revenue by country"} }
    \cup { Text("exit", TRUE, TRUE), Text("", TRUE, FALSE) }

\* What the classifier LLM call does: the route it names, or an exception.
ClassifierOutcomes == {"dataset", "meta", "out_of_scope", "terminate", "smalltalk", "raises"}

\* route_question: a route outside the four known ones is out_of_scope.
RouteQuestion(named) ==
    IF named \in {"dataset", "meta", "out_of_scope", "terminate"} THEN named
    ELSE "out_of_scope"

\* _safe_route: an exception of the classifier call becomes the meta route.
SafeRoute(outcome) == IF outcome = "raises" THEN "meta" ELSE RouteQuestion(outcome)

\* What answer_meta does: the answer text, or an exception.
MetaOutcomes == {"text", "raises"}

\* Mutant of HandlerFor: every plan goes to the engine.
HandlerForAnyPlan(p) == "dataset"

\* The handler run() gives a built plan to.
HandlerFor(p) == IF p.intent = "unknown" THEN "meta" ELSE "dataset"

\* Mutant of StorePlan: the plan is not stored.
StorePlanDropped(mem, p) == mem

\* run() persists the plan before it executes it.
StorePlan(mem, p) == SetLastPlan(mem, p)

\* The message _handle_dataset pushes: the built answer when the engine and
\* the response builder return, the error text when either raises.
BuildMessage(o) ==
    IF o.error # NoError THEN {"error"} ELSE {"answer", "error"}

\* The table the engine of the session was built with.
ChatTables == { t \in Tables : Len(t) = 1 }

\* Parsed outputs of the planner during a session.
ChatPlannerData ==
    { QueryPlan("aggregate", <<"revenue">>, <<>>, TR("all", None, None, None), <<>>,
                None, NoSortBy),
      QueryPlan("top_n", <<"revenue">>, <<"campaign_name">>, TR("all", None, None, None),
                <<>>, 1, SortBy("profit", "desc")),
      QueryPlan("aggregate", <<"revenue">>, <<"communication">>,
                TR("all", None, None, None), <<>>, None, NoSortBy),
      QueryPlan("unknown", <<>>, <<>>, TR("all", None, None, None), <<>>, None, NoSortBy) }

\* What one pass of the loop did.
Chat(status, reason, turn, input, route, asked, p, handler, engine_called, reply) ==
    [status |-> status, reason |-> reason, turn |-> turn, input |-> input,
     route |-> route, history |-> asked.history, last_plan_json |-> asked.last_plan_json,
     plan |-> p, handler |-> handler, engine_called |-> engine_called,
     replies |-> IF reply = "none" THEN 0 ELSE 1, reply |-> reply]

\* The text _handle_meta answers with: the meta responder's, or the apology
\* when it raises.
MetaReply(answer) == IF answer = "raises" THEN "apology" ELSE "meta_answer"

\* The text _handle_terminate answers with.
TerminateReply(answer) == IF answer = "raises" THEN "fallback_goodbye" ELSE "goodbye"

\* Nothing was asked of the memory in this pass.
NotAsked == [history |-> <<>>, last_plan_json |-> NullJson]

\* run() from push_user to last_plan_json(): the user message of this turn
\* is stored, then the history and the last plan are read.
Asked(mem, turn) ==
    LET stored == PushUser(mem, turn)
    IN  [memory |-> stored, history |-> HistoryString(stored, HistoryTurns),
         last_plan_json |-> LastPlanJson(stored)]

InitChat ==
    /\ df \in ChatTables
    /\ memory \in { ChatMemory(mu, mb) : mu \in 1..MaxHistory, mb \in 1..MaxHistory }
    /\ pushed = [user |-> <<>>, bot |-> <<>>]
    /\ chat = Chat("running", "none", 0, NoInput, "none", NotAsked, NoPlan, "none", FALSE, "none")
    /\ planner = [status |-> "none"]
    /\ auth = [status |-> "none"]
    /\ pc = "idle"
    /\ plan = NoPlan
    /\ slice = NoFrame
    /\ subset = NoFrame
    /\ result = NoResult
    /\ error = NoError
    /\ earlier = NoEarlier
    /\ source = NoSource
    /\ loaded = NotLoaded

\* prompt_user_input returns None: EOF or Ctrl+C.
InputClosed ==
    /\ chat.status = "running"
    /\ chat' = Chat("ended", "input", chat.turn, NoInput, "none", NotAsked, NoPlan,
                    "closed", FALSE, "goodbye")
    /\ UNCHANGED <<df, pc, plan, slice, subset, result, error, earlier, source, loaded,
                   planner, memory, pushed, auth>>

\* An empty line: the loop prompts again.
BlankInput(text) ==
    /\ chat.status = "running"
    /\ IsBlank(text)
    /\ chat' = Chat("running", "none", chat.turn, text, "none", NotAsked, NoPlan,
                    "blank", FALSE, "none")
    /\ UNCHANGED <<df, pc, plan, slice, subset, result, error, earlier, source, loaded,
                   planner, memory, pushed, auth>>

\* A local exit command: stored, answered locally, the loop returns.
ExitCommand(text) ==
    /\ chat.status = "running"
    /\ chat.turn < MaxTurns
    /\ ~IsBlank(text)
    /\ IsExitCommand(Strip(text))
    /\ memory' = PushUser(memory, chat.turn + 1)
    /\ pushed' = [pushed EXCEPT !.user = Append(@, chat.turn + 1)]
    /\ chat' = Chat("ended", "exit", chat.turn + 1, text, "none", NotAsked, NoPlan,
                    "exit", FALSE, "session_closed")
    /\ UNCHANGED <<df, pc, plan, slice, subset, result, error, earlier, source, loaded,
                   planner, auth>>

\* The classifier routes to terminate: _handle_terminate, the loop returns.
TurnTerminate(text, outcome, answer) ==
    /\ chat.status = "running"
    /\ chat.turn < MaxTurns
    /\ ~IsBlank(text)
    /\ ~IsExitCommand(Strip(text))
    /\ SafeRoute(outcome) = "terminate"
    /\ LET turn == chat.turn + 1
           asked == Asked(memory, turn)
       IN  /\ memory' = PushBot(asked.memory, turn)
           /\ pushed' = [user |-> Append(pushed.user, turn),
                         bot |-> Append(pushed.bot, turn)]
           /\ chat' = Chat("ended", "terminate", turn, text, SafeRoute(outcome), asked, NoPlan,
                           "terminate", FALSE, TerminateReply(answer))
    /\ UNCHANGED <<df, pc, plan, slice, subset, result, error, earlier, source, loaded,
                   planner, auth>>

\* The route is meta or out_of_scope, or routing failed: _handle_meta.
TurnMeta(text, outcome, answer) ==
    /\ chat.status = "running"
    /\ chat.turn < MaxTurns
    /\ ~IsBlank(text)
    /\ ~IsExitCommand(Strip(text))
    /\ SafeRoute(outcome) \in {"meta", "out_of_scope"}
    /\ LET turn == chat.turn + 1
           asked == Asked(memory, turn)
       IN  /\ memory' = PushBot(asked.memory, turn)
           /\ pushed' = [user |-> Append(pushed.user, turn),
                         bot |-> Append(pushed.bot, turn)]
           /\ chat' = Chat("running", "none", turn, text, SafeRoute(outcome), asked,
                           NoPlan, "meta", FALSE, MetaReply(answer))
    /\ UNCHANGED <<df, pc, plan, slice, subset, result, error, earlier, source, loaded,
                   planner, auth>>

\* The route is dataset and build_plan returns a plan: the meta responder
\* for an unknown plan, set_last_plan and _handle_dataset for any other.
TurnDataset(text, outcome, data, answer) ==
    /\ chat.status = "running"
    /\ chat.turn < MaxTurns
    /\ ~IsBlank(text)
    /\ ~IsExitCommand(Strip(text))
    /\ SafeRoute(outcome) = "dataset"
    /\ LET turn == chat.turn + 1
           asked == Asked(memory, turn)
           built == BuildPlanFrom(data)
       IN  /\ planner' = built
           /\ pushed' = [user |-> Append(pushed.user, turn),
                         bot |-> Append(pushed.bot, turn)]
           /\ IF HandlerFor(built.plan) = "meta"
              THEN /\ memory' = PushBot(asked.memory, turn)
                   /\ chat' = Chat("running", "none", turn, text, SafeRoute(outcome), asked,
                                   built.plan, "meta", FALSE, MetaReply(answer))
              ELSE \E o \in Outcomes(df, built.plan) :
                   \E message \in BuildMessage(o) :
                       /\ memory' = PushBot(StorePlan(asked.memory, built.plan), turn)
                       /\ chat' = Chat("running", "none", turn, text, SafeRoute(outcome), asked,
                                       built.plan, "dataset", TRUE, message)
    /\ UNCHANGED <<df, pc, plan, slice, subset, result, error, earlier, source, loaded,
                   auth>>

\* The route is dataset and the planner call raises inside build_plan: run()
\* has no handler around it and the exception leaves the loop.
TurnPlannerRaises(text, outcome) ==
    /\ chat.status = "running"
    /\ chat.turn < MaxTurns
    /\ ~IsBlank(text)
    /\ ~IsExitCommand(Strip(text))
    /\ SafeRoute(outcome) = "dataset"
    /\ LET turn == chat.turn + 1
           asked == Asked(memory, turn)
       IN  /\ memory' = asked.memory
           /\ pushed' = [pushed EXCEPT !.user = Append(@, turn)]
           /\ chat' = Chat("raised", "exception", turn, text, SafeRoute(outcome), asked, NoPlan,
                           "none", FALSE, "none")
    /\ UNCHANGED <<df, pc, plan, slice, subset, result, error, earlier, source, loaded,
                   planner, auth>>

NextChat ==
    \/ InputClosed
    \/ \E text \in UserInputs : BlankInput(text)
    \/ \E text \in UserInputs : ExitCommand(text)
    \/ \E text \in UserInputs, outcome \in ClassifierOutcomes, answer \in MetaOutcomes :
          TurnTerminate(text, outcome, answer)
    \/ \E text \in UserInputs, outcome \in ClassifierOutcomes, answer \in MetaOutcomes :
          TurnMeta(text, outcome, answer)
    \/ \E text \in UserInputs, outcome \in ClassifierOutcomes, data \in ChatPlannerData,
          answer \in MetaOutcomes :
          TurnDataset(text, outcome, data, answer)
    \/ \E text \in UserInputs, outcome \in ClassifierOutcomes : TurnPlannerRaises(text, outcome)

SpecChat == InitChat /\ [][NextChat]_vars


\* C24: the engine is never called with an unknown plan: a turn whose
\* planner result is unknown, validation failures included, is answered by
\* the meta responder without a call of execute_with_subset.
C24_UnknownNeverExecuted ==
    /\ chat.engine_called => chat.plan.intent \in {"aggregate", "top_n", "trend"}
    /\ (chat.route = "dataset" /\ chat.plan.intent = "unknown") =>
          /\ chat.handler = "meta"
          /\ ~chat.engine_called
          /\ chat.reply \in {"meta_answer", "apology"}

\* A validation failure was replaced by the unknown plan and answered by
\* the meta responder; another turn reached the engine.
C24_Witness ==
    /\ chat.route = "dataset"
    /\ planner.status = "built"
    /\ planner.validate_error
    /\ chat.plan = FallbackPlan
    /\ chat.handler = "meta"
    /\ memory.last_plan # NoPlan

\* C26: every User/Assistant pair of the history string joins a user
\* message with the assistant message that replied to it, after any number
\* of turns.
C26_HistoryPairsAligned ==
    \A i \in DOMAIN chat.history : chat.history[i].User = chat.history[i].Assistant

\* C27: run() ends only on closed input, a local exit command (without a
\* router call) or the terminate route; every other turn yields exactly one
\* assistant message and the loop prompts again.
C27_LoopEndsOnlyOnRequest ==
    /\ chat.status # "running" => chat.reason \in {"input", "exit", "terminate"}
    /\ chat.reason = "exit" => (IsExitCommand(chat.input) /\ chat.route = "none")
    /\ chat.reason = "terminate" => chat.route = "terminate"
    /\ (chat.route \in {"dataset", "meta", "out_of_scope"}) =>
          (chat.status = "running" /\ chat.replies = 1)

\* C28: the stored plan is absent or not unknown; only a turn that reaches
\* _handle_dataset changes it, to the plan of that turn whether or not the
\* execution succeeds; the plan a turn passes as last_plan_json is the one
\* stored before the turn.
C28_LastPlanFrame ==
    [][ /\ memory'.last_plan.intent # "unknown"
        /\ chat'.handler # "dataset" => memory'.last_plan = memory.last_plan
        /\ chat'.handler = "dataset" => memory'.last_plan = chat'.plan
        /\ chat'.route # "none" => chat'.last_plan_json = LastPlanJson(memory)
      ]_vars

\* A turn after a dataset turn whose execution failed: the failed plan is
\* what the turn passed on, and its own unknown planner result stored nothing.
C28_Witness ==
    /\ chat.route = "dataset"
    /\ chat.plan.intent = "unknown"
    /\ chat.last_plan_json = [null |-> FALSE, dump |-> memory.last_plan]
    /\ memory.last_plan.intent = "top_n"
    /\ memory.last_plan.sort_by.field \notin Range(memory.last_plan.metrics)


---------------------------------------------------------------------------
(* LocalAuth.login and the gate of main()                                  *)

MaxAttempts == 3    \* AuthConfig.max_attempts

\* An entry under `users` of users.yaml.
User(username, password_hash) == [username |-> username, password_hash |-> password_hash]

\* bcrypt: the hash of a password.
Hash(password) == "bcrypt:" \o password

\* The users files: missing, empty, with a good entry, with entries that
\* lack a key, with a text that is no bcrypt hash, with a name listed twice.
UsersFiles ==
    { [exists |-> FALSE, users |-> <<>>],
      [exists |-> TRUE, users |-> <<>>],
      [exists |-> TRUE, users |-> <<User("", Hash("pw1")), User("bob", "")>>],
      [exists |-> TRUE, users |-> <<User("alice", Hash("pw1"))>>],
      [exists |-> TRUE, users |-> <<User("alice", "plain"), User("bob", Hash("pw2"))>>],
      [exists |-> TRUE, users |-> <<User("alice", Hash("pw1")), User("alice", Hash("pw2")),
                                    User("", Hash("pw2"))>>] }

\* _load_users: no users without the file; the entries with both keys.
LoadUsers(file) ==
    IF ~file.exists THEN <<>>
    ELSE SelectSeq(file.users, LAMBDA u : u.username # "" /\ u.password_hash # "")

\* _check_credentials: the first entry of that name decides; a stored text
\* that is no hash makes checkpw raise, which counts as a failed check.
RECURSIVE CheckCredentials(_, _, _)
CheckCredentials(users, username, password) ==
    IF users = <<>> THEN FALSE
    ELSE IF Head(users).username # username
    THEN CheckCredentials(Tail(users), username, password)
    ELSE Head(users).password_hash = Hash(password)

Usernames == {"alice", "bob", "mallory"}

Passwords == {"pw1", "pw2"}

\* Mutant of AfterCheck: the last attempt lets the user in.
AfterCheckLenient(ok, attempt) ==
    IF ok \/ attempt = MaxAttempts THEN "True" ELSE "none"

\* What login() does after the check of one attempt: return True, go on to
\* the next attempt, or return False after the last one.
AfterCheck(ok, attempt) ==
    IF ok THEN "True" ELSE IF attempt = MaxAttempts THEN "False" ELSE "none"

\* login() and main() around it: `returned` is "none" while login runs.
Auth(enabled, users, asked, checks, returned, main) ==
    [status |-> "live", enabled |-> enabled, users |-> users, asked |-> asked,
     usernames |-> <<>>, checks |-> checks, returned |-> returned, main |-> main]

InitAuth ==
    /\ auth \in { Auth(e, LoadUsers(f), 0, <<>>, "none", "login") :
                    e \in BOOLEAN, f \in UsersFiles }
    /\ planner = [status |-> "none"]
    /\ memory = [status |-> "none"]
    /\ pushed = [user |-> <<>>, bot |-> <<>>]
    /\ chat = [status |-> "none"]
    /\ df = <<>>
    /\ pc = "idle"
    /\ plan = NoPlan
    /\ slice = NoFrame
    /\ subset = NoFrame
    /\ result = NoResult
    /\ error = NoError
    /\ earlier = NoEarlier
    /\ source = NoSource
    /\ loaded = NotLoaded

\* Auth is disabled: True without a prompt.
LoginDisabled ==
    /\ auth.returned = "none"
    /\ ~auth.enabled
    /\ auth' = [auth EXCEPT !.returned = "True"]
    /\ UNCHANGED <<df, pc, plan, slice, subset, result, error, earlier, source, loaded,
                   planner, memory, pushed, chat>>

\* Auth is enabled and no users were loaded: False without a prompt.
LoginNoUsers ==
    /\ auth.returned = "none"
    /\ auth.enabled
    /\ auth.users = <<>>
    /\ auth' = [auth EXCEPT !.returned = "False"]
    /\ UNCHANGED <<df, pc, plan, slice, subset, result, error, earlier, source, loaded,
                   planner, memory, pushed, chat>>

\* One pass of the attempt loop: the credentials are asked and checked.
LoginAttempt(username, password) ==
    /\ auth.returned = "none"
    /\ auth.enabled
    /\ auth.users # <<>>
    /\ LET ok == CheckCredentials(auth.users, username, password)
       IN  auth' = [auth EXCEPT !.asked = @ + 1,
                                !.usernames = Append(@, username),
                                !.checks = Append(@, ok),
                                !.returned = AfterCheck(ok, auth.asked + 1)]
    /\ UNCHANGED <<df, pc, plan, slice, subset, result, error, earlier, source, loaded,
                   planner, memory, pushed, chat>>

\* The prompt is interrupted (EOF or Ctrl+C): False.
LoginInterrupted ==
    /\ auth.returned = "none"
    /\ auth.enabled
    /\ auth.users # <<>>
    /\ auth' = [auth EXCEPT !.asked = @ + 1, !.returned = "False"]
    /\ UNCHANGED <<df, pc, plan, slice, subset, result, error, earlier, source, loaded,
                   planner, memory, pushed, chat>>

\* main() after maybe_login: it returns on False, and loads the dataset and
\* starts the chat loop on True.
MainAfterLogin ==
    /\ auth.returned # "none"
    /\ auth.main = "login"
    /\ auth' = [auth EXCEPT !.main = IF auth.returned = "True" THEN "chat_loop" ELSE "returned"]
    /\ UNCHANGED <<df, pc, plan, slice, subset, result, error, earlier, source, loaded,
                   planner, memory, pushed, chat>>

NextAuth ==
    \/ LoginDisabled
    \/ LoginNoUsers
    \/ \E username \in Usernames, password \in Passwords : LoginAttempt(username, password)
    \/ LoginInterrupted
    \/ MainAfterLogin

SpecAuth == InitAuth /\ [][NextAuth]_vars

\* The last credential check of the login succeeded.
LastCheckSucceeded == auth.checks # <<>> /\ auth.checks[Len(auth.checks)]

\* Every credential check of the login failed.
AllChecksFailed == \A i \in DOMAIN auth.checks : ~auth.checks[i]

\* C29: with auth enabled login asks at most max_attempts times, returns
\* True only right after a successful check, and returns False after
\* max_attempts failed checks, on interrupted input or without users;
\* disabled, it returns True without a prompt; main() goes on to the dataset
\* and the chat loop only after True.
C29_LoginGate ==
    /\ auth.asked <= MaxAttempts
    /\ Len(auth.checks) <= auth.asked
    /\ (auth.enabled /\ auth.returned = "True") =>
          (LastCheckSucceeded /\ Len(auth.checks) = auth.asked)
    /\ (auth.enabled /\ Len(auth.checks) = MaxAttempts /\ AllChecksFailed) =>
          auth.returned = "False"
    /\ (auth.enabled /\ Len(auth.checks) < auth.asked) => auth.returned = "False"
    /\ (auth.enabled /\ auth.users = <<>>) => (auth.asked = 0 /\ auth.returned # "True")
    /\ (auth.enabled /\ auth.returned = "none") => AllChecksFailed
    /\ ~auth.enabled => (auth.asked = 0 /\ auth.returned # "False")
    /\ auth.main = "chat_loop" => auth.returned = "True"
    /\ auth.main = "returned" => auth.returned = "False"

\* The third attempt succeeded after two failed ones and main() went on.
C29_Witness ==
    /\ auth.enabled
    /\ auth.checks = <<FALSE, FALSE, TRUE>>
    /\ auth.returned = "True"
    /\ auth.main = "chat_loop"

\* C30: a top_n plan with a groupby, a top_n and a sort_by on any metric
\* returns a result, also when its metrics are empty or lack sort_by.field.
C30_TopNSortFieldAvailable ==
    (/\ pc # "idle"
     /\ slice # NoFrame
     /\ plan.intent = "top_n"
     /\ plan.groupby # <<>>
     /\ plan.top_n # None
     /\ plan.sort_by # NoSortBy
     /\ plan.sort_by.field \in Metric) =>
        /\ pc = "returned"
        /\ plan.sort_by.field \in Range(result.metrics)

=============================================================================
